---- MODULE Spec2Model ----
(***************************************************************************)
(* ChronoLearn: the deterministic machinery around the language model.     *)
(*                                                                         *)
(*   Spec          kg/graph_builder.py: add_triple, build_graph_from_      *)
(*                 triples, merge_graphs over a pool of graphs             *)
(*   SpecPipeline  one invocation of load_tbox_template, get_allowed_      *)
(*                 predicates, generate_triples or export_rdf, from any    *)
(*                 state of the ontology/ and triples/ directories         *)
(*   SpecExport    a run of calls to the functions of rdf_exporter.py on a *)
(*                 filesystem whose open() and write() may fail            *)
(*   SpecText      a function of text_normalizer.py applied to one text,   *)
(*                 then to its own output, or segment_into_events applied  *)
(*                 to one text                                             *)
(*   SpecConcurrent  two invocations, each building a graph from its       *)
(*                 triples and exporting them to Turtle at its own path,   *)
(*                 interleaved statement by statement                      *)
(*                                                                         *)
(* Text is a sequence of one-symbol strings.  A symbol is either a         *)
(* whitespace character or an atomic non-whitespace unit.                  *)
(* A dict is a function from its keys; a networkx DiGraph is the pair of   *)
(* its node dict (id -> attribute dict) and its edge dict                  *)
(* (<<u, v>> -> attribute dict).                                           *)
(***************************************************************************)
EXTENDS Integers, Sequences, FiniteSets, TLC

VARIABLES graphs, last, steps, ontology, dirs, fs, call, history, norm,
          procs, outs

\* the graph pool, the last operation on it, the number of operations
gvars == <<graphs, last, steps>>

\* the template files present under ontology/, whether triples/ exists, the
\* artifact files under it, and the invocation made with its outcome
pvars == <<ontology, dirs, fs, call>>

\* the calls made so far (SpecExport); the text under normalization and the
\* outputs computed from it (SpecText)
xvars == <<history, norm>>

\* the local variables of each of two concurrent invocations and the files
\* at their output paths (SpecConcurrent)
cvars == <<procs, outs>>

vars == <<gvars, pvars, xvars, cvars>>

(***************************************************************************)
(* Bounds                                                                  *)
(***************************************************************************)
NumSlots == 2

MaxSteps == 3

MaxTriples == 2

MaxMerge == 3

MaxCandidates == 2

MaxExportTriples == 2

MaxCalls == 2

MaxTextLen == 3

MaxLines == 3

NumInvocations == 2

(***************************************************************************)
(* Generic helpers                                                         *)
(***************************************************************************)
EmptyMap == [k \in {} |-> k]

\* dict.update(other): every key of other is written over d
DictUpdate(d, other) ==
    [k \in (DOMAIN d) \cup (DOMAIN other) |->
        IF k \in DOMAIN other THEN other[k] ELSE d[k]]

\* dict.get(key, default)
DictGet(d, key, default) == IF key \in DOMAIN d THEN d[key] ELSE default

SeqsUpTo(S, n) == UNION {[1..k -> S] : k \in 0..n}

(***************************************************************************)
(* pipeline/text_normalizer.py                                             *)
(*                                                                         *)
(* Code points are named by their Unicode names; "x" and "y" stand for     *)
(* ASCII letters.                                                          *)
(***************************************************************************)
\* canonical combining class (unicodedata.combining) of the marks modelled
CombiningClass(c) ==
    CASE c = "FATHA" -> 30
      [] c = "SHADDA" -> 33
      [] c = "HAMZA_BELOW" -> 220
      [] c = "MADDAH_ABOVE" -> 230
      [] c = "HAMZA_ABOVE" -> 230
      [] c = "SMALL_HIGH_SAD_LAM_ALEF_MAKSURA" -> 230
      [] c = "COMBINING_ACUTE" -> 230
      [] OTHER -> 0

\* canonical decompositions of the Arabic block and of U+00E9
\* (UnicodeData.txt)
CanonicalDecomposition(c) ==
    CASE c = "ALEF_WITH_MADDA_ABOVE" -> <<"ALEF", "MADDAH_ABOVE">>
      [] c = "ALEF_WITH_HAMZA_ABOVE" -> <<"ALEF", "HAMZA_ABOVE">>
      [] c = "ALEF_WITH_HAMZA_BELOW" -> <<"ALEF", "HAMZA_BELOW">>
      [] c = "WAW_WITH_HAMZA_ABOVE" -> <<"WAW", "HAMZA_ABOVE">>
      [] c = "YEH_WITH_HAMZA_ABOVE" -> <<"YEH", "HAMZA_ABOVE">>
      [] c = "E_ACUTE" -> <<"e", "COMBINING_ACUTE">>
      [] OTHER -> <<c>>

Precomposed ==
    {"ALEF_WITH_MADDA_ABOVE", "ALEF_WITH_HAMZA_ABOVE", "ALEF_WITH_HAMZA_BELOW",
     "WAW_WITH_HAMZA_ABOVE", "YEH_WITH_HAMZA_ABOVE", "E_ACUTE"}

\* the primary composite of starter and mark, <<>> when there is none
Composite(starter, mark) ==
    LET hits == {c \in Precomposed : CanonicalDecomposition(c) = <<starter, mark>>}
    IN  IF hits = {} THEN <<>> ELSE <<CHOOSE c \in hits : TRUE>>

RECURSIVE Decompose(_)
Decompose(text) ==
    IF text = <<>> THEN <<>>
    ELSE CanonicalDecomposition(Head(text)) \o Decompose(Tail(text))

\* canonical ordering: adjacent marks are exchanged while a higher class
\* precedes a lower non-zero class
RECURSIVE CanonicalOrder(_)
CanonicalOrder(text) ==
    LET bad == {i \in 1..(Len(text) - 1) :
                   /\ CombiningClass(text[i + 1]) > 0
                   /\ CombiningClass(text[i]) > CombiningClass(text[i + 1])}
    IN  IF bad = {} THEN text
        ELSE LET i == CHOOSE j \in bad : \A k \in bad : j <= k
             IN  CanonicalOrder([k \in 1..Len(text) |->
                                    IF k = i THEN text[i + 1]
                                    ELSE IF k = i + 1 THEN text[i]
                                    ELSE text[k]])

\* canonical composition: out is the text composed so far, sp the position
\* in out of the last starter (0: none), lastClass the class of the last
\* code point appended
RECURSIVE ComposeFrom(_, _, _, _, _)
ComposeFrom(text, i, out, sp, lastClass) ==
    IF i > Len(text) THEN out
    ELSE LET c == text[i]
             cc == CombiningClass(c)
             comp == IF sp = 0 THEN <<>> ELSE Composite(out[sp], c)
         IN  IF comp # <<>> /\ (lastClass < cc \/ lastClass = 0)
             THEN ComposeFrom(text, i + 1, [out EXCEPT ![sp] = comp[1]],
                              sp, lastClass)
             ELSE ComposeFrom(text, i + 1, Append(out, c),
                              IF cc = 0 THEN Len(out) + 1 ELSE sp, cc)

\* unicodedata.normalize("NFC", text)
NFC(text) == ComposeFrom(CanonicalOrder(Decompose(text)), 1, <<>>, 0, 0)

\* code points of [\u0600-\u06FF]
ArabicBlock ==
    (Precomposed \ {"E_ACUTE"}) \cup
    {"KHAH", "SEEN",
     "ALEF", "ALEF_WASLA", "ALEF_MAKSURA", "YEH", "WAW", "TEH_MARBUTA", "HEH",
     "TATWEEL", "FATHA", "SHADDA", "MADDAH_ABOVE", "HAMZA_ABOVE", "HAMZA_BELOW",
     "SMALL_HIGH_SAD_LAM_ALEF_MAKSURA", "ARABIC_QUESTION_MARK",
     "MEEM", "AIN", "REH", "KAF", "HAH", "DAL", "THEH", "BEH", "SHEEN", "TEH",
     "SAD", "QAF", "NOON", "LAM", "JEEM", "GHAIN"}

\* code points of [\u0617-\u061A\u064B-\u0652\u06D6-\u06ED]
Diacritics == {"FATHA", "SHADDA", "SMALL_HIGH_SAD_LAM_ALEF_MAKSURA"}

\* str.replace(old, new) for a one-code-point old; new is a text
RECURSIVE Replace(_, _, _)
Replace(text, old, new) ==
    IF text = <<>> THEN <<>>
    ELSE (IF Head(text) = old THEN new ELSE <<Head(text)>>)
         \o Replace(Tail(text), old, new)

\* re.sub of a character class by the empty string
RECURSIVE Remove(_, _)
Remove(text, class) ==
    IF text = <<>> THEN <<>>
    ELSE (IF Head(text) \in class THEN <<>> ELSE <<Head(text)>>)
         \o Remove(Tail(text), class)

normalize_arabic(text) ==
    LET t0 == NFC(text)
    IN  IF \A i \in 1..Len(t0) : t0[i] \notin ArabicBlock
        THEN t0
        ELSE LET t1 == Replace(t0, "TATWEEL", <<>>)
                 t2 == Replace(t1, "ALEF_WITH_HAMZA_BELOW", <<"ALEF">>)
                 t3 == Replace(t2, "ALEF_WITH_HAMZA_ABOVE", <<"ALEF">>)
                 t4 == Replace(t3, "ALEF_WITH_MADDA_ABOVE", <<"ALEF">>)
                 t5 == Replace(t4, "ALEF_WASLA", <<"ALEF">>)
                 t6 == Replace(t5, "ALEF_MAKSURA", <<"YEH">>)
                 t7 == Replace(t6, "TEH_MARBUTA", <<"HEH">>)
             IN  Remove(t7, Diacritics)

\* code points of [\x00-\x1F\x7F]
ControlChars == {"\t", "\n", "\r"}

\* code points matched by \s and stripped by str.strip()
Whitespace == {" ", "\t", "\n", "\r", "NO_BREAK_SPACE"}

\* str.strip()
RECURSIVE Strip(_)
Strip(text) ==
    IF text = <<>> THEN <<>>
    ELSE IF Head(text) \in Whitespace THEN Strip(Tail(text))
    ELSE IF text[Len(text)] \in Whitespace
         THEN Strip(SubSeq(text, 1, Len(text) - 1))
    ELSE text

\* re.sub(r"\s+", " ", text)
RECURSIVE CollapseWhitespace(_)
CollapseWhitespace(text) ==
    IF text = <<>> THEN <<>>
    ELSE IF Head(text) \in Whitespace
         THEN IF Len(text) > 1 /\ text[2] \in Whitespace
              THEN CollapseWhitespace(Tail(text))
              ELSE <<" ">> \o CollapseWhitespace(Tail(text))
         ELSE <<Head(text)>> \o CollapseWhitespace(Tail(text))

normalize_english(text) ==
    Strip(CollapseWhitespace(Remove(text, ControlChars)))

\* [.!?ARABIC_QUESTION_MARK]
RepeatablePunctuation == {".", "!", "?", "ARABIC_QUESTION_MARK"}

\* [.,!?:ARABIC_QUESTION_MARK]
SpacedPunctuation == {".", ",", "!", "?", ":", "ARABIC_QUESTION_MARK"}

\* re.sub(r"([.!?ARABIC_QUESTION_MARK])\1+", r"\1", text)
RECURSIVE DedupPunctuation(_)
DedupPunctuation(text) ==
    IF text = <<>> THEN <<>>
    ELSE IF /\ Head(text) \in RepeatablePunctuation
            /\ Len(text) > 1
            /\ text[2] = Head(text)
         THEN DedupPunctuation(Tail(text))
         ELSE <<Head(text)>> \o DedupPunctuation(Tail(text))

\* length of the whitespace run at the head of text
RECURSIVE WhitespaceRun(_)
WhitespaceRun(text) ==
    IF text # <<>> /\ Head(text) \in Whitespace
    THEN 1 + WhitespaceRun(Tail(text))
    ELSE 0

\* re.sub(r"\s+([.,!?:ARABIC_QUESTION_MARK])", r"\1", text)
RECURSIVE UnspacePunctuation(_)
UnspacePunctuation(text) ==
    IF text = <<>> THEN <<>>
    ELSE LET n == WhitespaceRun(text)
         IN  IF n = 0
             THEN <<Head(text)>> \o UnspacePunctuation(Tail(text))
             ELSE IF n < Len(text) /\ text[n + 1] \in SpacedPunctuation
                  THEN <<text[n + 1]>>
                       \o UnspacePunctuation(SubSeq(text, n + 2, Len(text)))
                  ELSE SubSeq(text, 1, n)
                       \o UnspacePunctuation(SubSeq(text, n + 1, Len(text)))

clean_text(text) ==
    IF text = <<>> THEN <<>>
    ELSE Strip(UnspacePunctuation(DedupPunctuation(
             normalize_english(normalize_arabic(text)))))

(***************************************************************************)
(* kg/graph_builder.py                                                     *)
(***************************************************************************)
\* str.split(): the maximal runs of non-whitespace symbols, in order
RECURSIVE SplitFrom(_, _, _)
SplitFrom(text, i, cur) ==
    IF i > Len(text)
    THEN IF cur = <<>> THEN <<>> ELSE <<cur>>
    ELSE IF text[i] \in Whitespace
         THEN IF cur = <<>>
              THEN SplitFrom(text, i + 1, <<>>)
              ELSE <<cur>> \o SplitFrom(text, i + 1, <<>>)
         ELSE SplitFrom(text, i + 1, Append(cur, text[i]))

Split(text) == SplitFrom(text, 1, <<>>)

\* " ".join(words)
RECURSIVE JoinSpace(_)
JoinSpace(words) ==
    IF words = <<>> THEN <<>>
    ELSE IF Len(words) = 1 THEN words[1]
    ELSE words[1] \o <<" ">> \o JoinSpace(Tail(words))

normalize_label(label) == JoinSpace(Split(label))

EmptyGraph == [node |-> EmptyMap, edge |-> EmptyMap]

\* mutant: the guard dropped, so add_node rewrites a present node's attributes
add_node_unguarded(G, n, attrs) ==
    [G EXCEPT !.node = [m \in (DOMAIN G.node) \cup {n} |->
                           IF m = n
                           THEN IF n \in DOMAIN G.node
                                THEN DictUpdate(G.node[n], attrs)
                                ELSE attrs
                           ELSE G.node[m]]]

\* G.add_node(n, **attrs) behind the "if n not in G" guard
add_node_if_absent(G, n, attrs) ==
    IF n \in DOMAIN G.node
    THEN G
    ELSE [G EXCEPT !.node = [m \in (DOMAIN G.node) \cup {n} |->
                                IF m = n THEN attrs ELSE G.node[m]]]

\* mutant: an edge already stored for the pair is kept as it is
add_edge_keep_first(G, u, v, attrs) ==
    IF <<u, v>> \in DOMAIN G.edge
    THEN G
    ELSE [G EXCEPT !.edge = [e \in (DOMAIN G.edge) \cup {<<u, v>>} |->
                                IF e = <<u, v>> THEN attrs ELSE G.edge[e]]]

\* G.add_edge(u, v, **attrs): the attribute dict of the edge keyed by the
\* ordered pair is created, or updated key by key when the pair is present.
\* Both callers insert u and v before the edge.
add_edge(G, u, v, attrs) ==
    [G EXCEPT !.edge = [e \in (DOMAIN G.edge) \cup {<<u, v>>} |->
                           IF e = <<u, v>>
                           THEN IF e \in DOMAIN G.edge
                                THEN DictUpdate(G.edge[e], attrs)
                                ELSE attrs
                           ELSE G.edge[e]]]

NodeAttrs(id, theme, tbox, source_file) ==
    [label |-> id, theme |-> theme, tbox |-> tbox,
     source |-> source_file, type |-> "entity"]

EdgeAttrs(predicate, theme, tbox, span, source_file) ==
    [label |-> predicate, predicate |-> predicate, theme |-> theme,
     tbox |-> tbox, span |-> span, source |-> source_file]

\* mutant: the object node is never inserted
add_triple_no_object_node(G, triple, theme, tbox, source_file) ==
    LET subject   == normalize_label(triple["subject"])
        predicate == normalize_label(triple["predicate"])
        object_   == normalize_label(triple["object"])
        span      == DictGet(triple, "span", <<>>)
        G1 == add_node_if_absent(G, subject,
                                 NodeAttrs(subject, theme, tbox, source_file))
    IN  add_edge(G1, subject, object_,
                 EdgeAttrs(predicate, theme, tbox, span, source_file))

add_triple(G, triple, theme, tbox, source_file) ==
    LET subject   == normalize_label(triple["subject"])
        predicate == normalize_label(triple["predicate"])
        object_   == normalize_label(triple["object"])
        span      == DictGet(triple, "span", <<>>)
        G1 == add_node_if_absent(G, subject,
                                 NodeAttrs(subject, theme, tbox, source_file))
        G2 == add_node_if_absent(G1, object_,
                                 NodeAttrs(object_, theme, tbox, source_file))
    IN  add_edge(G2, subject, object_,
                 EdgeAttrs(predicate, theme, tbox, span, source_file))

RECURSIVE AddAll(_, _, _, _, _)
AddAll(G, triples, theme, tbox, source_file) ==
    IF triples = <<>> THEN G
    ELSE AddAll(add_triple(G, Head(triples), theme, tbox, source_file),
                Tail(triples), theme, tbox, source_file)

build_graph_from_triples(triples, theme, tbox, source_file) ==
    AddAll(EmptyGraph, triples, theme, tbox, source_file)

\* mutant: no update branch, the first graph holding a node or edge wins
MergeOneKeepFirst(G, g) ==
    [node |-> [n \in (DOMAIN G.node) \cup (DOMAIN g.node) |->
                  IF n \in DOMAIN G.node THEN G.node[n] ELSE g.node[n]],
     edge |-> [e \in (DOMAIN G.edge) \cup (DOMAIN g.edge) |->
                  IF e \in DOMAIN G.edge THEN G.edge[e] ELSE g.edge[e]]]

\* mutant: an edge held by both graphs takes the later attributes but keeps
\* the theme it had
MergeOneThemeOfFirst(G, g) ==
    [node |-> [n \in (DOMAIN G.node) \cup (DOMAIN g.node) |->
                  IF n \notin DOMAIN G.node THEN g.node[n]
                  ELSE IF n \in DOMAIN g.node
                       THEN DictUpdate(G.node[n], g.node[n])
                       ELSE G.node[n]],
     edge |-> [e \in (DOMAIN G.edge) \cup (DOMAIN g.edge) |->
                  IF e \notin DOMAIN G.edge THEN g.edge[e]
                  ELSE IF e \in DOMAIN g.edge
                       THEN [DictUpdate(G.edge[e], g.edge[e])
                                EXCEPT !["theme"] = G.edge[e]["theme"]]
                       ELSE G.edge[e]]]

\* one pass of the outer loop of merge_graphs: g's nodes, then g's edges
MergeOne(G, g) ==
    [node |-> [n \in (DOMAIN G.node) \cup (DOMAIN g.node) |->
                  IF n \notin DOMAIN G.node THEN g.node[n]
                  ELSE IF n \in DOMAIN g.node
                       THEN DictUpdate(G.node[n], g.node[n])
                       ELSE G.node[n]],
     edge |-> [e \in (DOMAIN G.edge) \cup (DOMAIN g.edge) |->
                  IF e \notin DOMAIN G.edge THEN g.edge[e]
                  ELSE IF e \in DOMAIN g.edge
                       THEN DictUpdate(G.edge[e], g.edge[e])
                       ELSE G.edge[e]]]

RECURSIVE MergeFrom(_, _)
MergeFrom(G, gs) ==
    IF gs = <<>> THEN G ELSE MergeFrom(MergeOne(G, Head(gs)), Tail(gs))

\* mutant: the edge loop dedented out of "for g in graphs", so that it runs
\* once, over the last graph
merge_graphs_edges_of_last(gs) ==
    IF gs = <<>> THEN EmptyGraph
    ELSE [node |-> MergeFrom(EmptyGraph, gs).node,
          edge |-> gs[Len(gs)].edge]

\* mutant: add_node(node) / add_edge(u, v) called without **attrs
merge_graphs_no_attrs(gs) ==
    LET M == MergeFrom(EmptyGraph, gs)
    IN  [node |-> [n \in DOMAIN M.node |-> EmptyMap],
         edge |-> [e \in DOMAIN M.edge |-> EmptyMap]]

merge_graphs(gs) == MergeFrom(EmptyGraph, gs)

(***************************************************************************)
(* Initial_Implementation/tbox_loader.py                                   *)
(*                                                                         *)
(* A call that may raise returns a record whose field exc is "none" or the *)
(* exception's class.  An optional argument is <<>> for None and <<v>> for *)
(* the value v.                                                            *)
(***************************************************************************)
None == <<>>

\* Python truthiness of an optional string
Truthy(opt) == opt # None /\ opt[1] # ""

OntologyFiles == {"event.tbox.ttl", "cultural.tbox.ttl", "custom.tbox.ttl"}

\* the text of a template file that is present under ontology/
TemplateText(filename) ==
    <<"# T-Box ", filename, "\n", "onto:Event a owl:Class .">>

load_tbox_file(present, filename) ==
    IF filename \notin present
    THEN [exc |-> "none",
          value |-> <<"# WARNING: Missing T-Box file: ", filename>>]
    ELSE [exc |-> "none", value |-> TemplateText(filename)]

\* the (template, class) return of load_tbox_template
TemplateAndClass(file, class) ==
    IF file.exc # "none" THEN [exc |-> file.exc]
    ELSE [exc |-> "none", template |-> file.value, class |-> class]

\* mutant: a caller-supplied class overrides the built-in one and "other"
\* without a class falls back to owl:Thing
load_tbox_template_user_first(present, theme, user_tbox) ==
    LET chosen(builtin) == IF Truthy(user_tbox) THEN user_tbox[1] ELSE builtin
    IN  IF theme = "event"
        THEN TemplateAndClass(load_tbox_file(present, "event.tbox.ttl"),
                              chosen("dbo:Event"))
        ELSE IF theme = "cultural"
        THEN TemplateAndClass(load_tbox_file(present, "cultural.tbox.ttl"),
                              chosen("dbo:CulturalHeritageObject"))
        ELSE IF theme = "other"
        THEN TemplateAndClass(load_tbox_file(present, "custom.tbox.ttl"),
                              chosen("owl:Thing"))
        ELSE [exc |-> "ValueError"]

load_tbox_template(present, theme, user_tbox) ==
    IF theme = "event"
    THEN TemplateAndClass(load_tbox_file(present, "event.tbox.ttl"),
                          "dbo:Event")
    ELSE IF theme = "cultural"
    THEN TemplateAndClass(load_tbox_file(present, "cultural.tbox.ttl"),
                          "dbo:CulturalHeritageObject")
    ELSE IF theme = "other"
    THEN IF ~ Truthy(user_tbox)
         THEN [exc |-> "ValueError"]
         ELSE TemplateAndClass(load_tbox_file(present, "custom.tbox.ttl"),
                               user_tbox[1])
    ELSE [exc |-> "ValueError"]

(***************************************************************************)
(* pipeline/triple_generator.py                                            *)
(***************************************************************************)
EVENT_PREDICATES ==
    [k \in {<<"occurredIn">>, <<"occurredOn">>, <<"hasParticipant">>,
            <<"hasOutcome">>, <<"relatedToEvent">>, <<"precededBy">>,
            <<"followedBy">>} |-> <<"ar">> \o k]

CULTURAL_PREDICATES ==
    [k \in {<<"originatedIn">>, <<"practicedBy">>, <<"belongsToCulture">>,
            <<"relatedTradition">>, <<"hasSymbolism">>} |-> <<"ar">> \o k]

\* mutant: a theme without a table of its own gets the event predicates
get_allowed_predicates_event_default(theme) ==
    IF theme = "cultural" THEN CULTURAL_PREDICATES ELSE EVENT_PREDICATES

get_allowed_predicates(theme) ==
    IF theme = "event" THEN EVENT_PREDICATES
    ELSE IF theme = "cultural" THEN CULTURAL_PREDICATES
    ELSE EmptyMap

\* tbox_loader.load_allowed_predicates: the same lookup over the tables of
\* tbox_loader.py, which hold the same entries
load_allowed_predicates(theme) ==
    IF theme = "event" THEN EVENT_PREDICATES
    ELSE IF theme = "cultural" THEN CULTURAL_PREDICATES
    ELSE EmptyMap

markers ==
    << <<"MEEM", "AIN", "REH", "KAF", "TEH_MARBUTA">>,
       <<"ALEF_WITH_HAMZA_ABOVE", "HAH", "DAL", "ALEF", "THEH">>,
       <<"HAH", "REH", "BEH">>,
       <<"ALEF", "SHEEN", "TEH", "BEH", "ALEF", "KAF">>,
       <<"SAD", "REH", "ALEF", "AIN">>,
       <<"WAW", "QAF", "AIN", "TEH">>,
       <<"ALEF", "NOON", "DAL", "LAM", "AIN", "TEH">>,
       <<"HAH", "DAL", "THEH", "TEH">>,
       <<"ALEF", "JEEM", "TEH", "YEH", "ALEF", "HAH">>,
       <<"AIN", "MEEM", "LAM", "YEH", "TEH_MARBUTA">>,
       <<"ALEF", "GHAIN", "TEH", "YEH", "ALEF", "LAM">> >>

\* m in line
Contains(line, m) ==
    \E i \in 0..(Len(line) - Len(m)) : SubSeq(line, i + 1, i + Len(m)) = m

HasMarker(line) == \E k \in 1..Len(markers) : Contains(line, markers[k])

\* text.split("\n"): the pieces between consecutive line breaks
LineBreaks(text) == {i \in 1..Len(text) : text[i] = "\n"}

SplitLines(text) ==
    LET breaks == LineBreaks(text)
        \* position of the k-th line break; 0 and Len + 1 bound the text
        At(k) == IF k = 0 THEN 0
                 ELSE IF k > Cardinality(breaks) THEN Len(text) + 1
                 ELSE CHOOSE i \in breaks :
                         Cardinality({j \in breaks : j < i}) = k - 1
    IN  [k \in 1..(Cardinality(breaks) + 1) |->
            SubSeq(text, At(k - 1) + 1, At(k) - 1)]

\* "\n".join(lines)
RECURSIVE JoinLines(_)
JoinLines(lines) ==
    IF lines = <<>> THEN <<>>
    ELSE IF Len(lines) = 1 THEN lines[1]
    ELSE lines[1] \o <<"\n">> \o JoinLines(Tail(lines))

\* mutant: a marker line never closes the current segment
RECURSIVE SegmentLoopUnsplit(_, _, _, _)
SegmentLoopUnsplit(lines, i, segments, current) ==
    IF i > Len(lines)
    THEN IF current # <<>> THEN Append(segments, JoinLines(current))
         ELSE segments
    ELSE SegmentLoopUnsplit(lines, i + 1, segments, Append(current, lines[i]))

\* the loop of segment_into_events over the lines from position i
RECURSIVE SegmentLoop(_, _, _, _)
SegmentLoop(lines, i, segments, current) ==
    IF i > Len(lines)
    THEN IF current # <<>> THEN Append(segments, JoinLines(current))
         ELSE segments
    ELSE IF HasMarker(lines[i])
         THEN SegmentLoop(lines, i + 1,
                          IF current # <<>>
                          THEN Append(segments, JoinLines(current))
                          ELSE segments,
                          <<lines[i]>>)
         ELSE SegmentLoop(lines, i + 1, segments, Append(current, lines[i]))

\* mutant: blank segments are kept
RECURSIVE StripEach(_)
StripEach(segments) ==
    IF segments = <<>> THEN <<>>
    ELSE <<Strip(Head(segments))>> \o StripEach(Tail(segments))

\* [seg.strip() for seg in segments if seg.strip()]
RECURSIVE StripNonEmpty(_)
StripNonEmpty(segments) ==
    IF segments = <<>> THEN <<>>
    ELSE (IF Strip(Head(segments)) # <<>> THEN <<Strip(Head(segments))>>
          ELSE <<>>)
         \o StripNonEmpty(Tail(segments))

segment_into_events(text) ==
    StripNonEmpty(SegmentLoop(SplitLines(text), 1, <<>>, <<>>))

\* all_triples.extend(triples) over the segments, in order
RECURSIVE Concat(_)
Concat(lists) ==
    IF lists = <<>> THEN <<>> ELSE Head(lists) \o Concat(Tail(lists))

\* mutant: the predicate is trimmed before the lookup
PredicateAllowedTrimmed(t, allowed) ==
    "predicate" \in DOMAIN t /\ Strip(t["predicate"]) \in DOMAIN allowed

\* t.get("predicate") in allowed; a missing key reads as None
PredicateAllowed(t, allowed) ==
    "predicate" \in DOMAIN t /\ t["predicate"] \in DOMAIN allowed

\* [t for t in all_triples if t.get("predicate") in allowed]
RECURSIVE FilterAllowed(_, _)
FilterAllowed(triples, allowed) ==
    IF triples = <<>> THEN <<>>
    ELSE (IF PredicateAllowed(Head(triples), allowed)
          THEN <<Head(triples)>> ELSE <<>>)
         \o FilterAllowed(Tail(triples), allowed)

\* mutant: the text is segmented as given, before any cleaning
generate_triples_raw_lines(present, text, theme, user_tbox, responses) ==
    LET tbox == load_tbox_template(present, theme, user_tbox)
    IN  IF tbox.exc # "none"
        THEN [exc |-> tbox.exc, sent |-> <<>>]
        ELSE LET segments == segment_into_events(text)
                 all_triples ==
                     Concat([k \in 1..Len(segments) |->
                                IF k \in DOMAIN responses THEN responses[k]
                                ELSE <<>>])
                 allowed == get_allowed_predicates(theme)
             IN  [exc |-> "none",
                  sent |-> segments,
                  all_triples |-> all_triples,
                  value |-> [theme |-> theme,
                             tbox |-> tbox.class,
                             segments |-> segments,
                             triples |-> FilterAllowed(all_triples, allowed)]]

\* generate_triples; responses[k] is what generate_triples_for_segment
\* returns for the k-th segment (the parsed reply, [] when it does not parse)
generate_triples(present, text, theme, user_tbox, responses) ==
    LET cleaned == clean_text(text)
        tbox == load_tbox_template(present, theme, user_tbox)
    IN  IF tbox.exc # "none"
        THEN [exc |-> tbox.exc, sent |-> <<>>]
        ELSE LET segments == segment_into_events(cleaned)
                 all_triples ==
                     Concat([k \in 1..Len(segments) |-> responses[k]])
                 allowed == get_allowed_predicates(theme)
             IN  [exc |-> "none",
                  sent |-> segments,
                  all_triples |-> all_triples,
                  value |-> [theme |-> theme,
                             tbox |-> tbox.class,
                             segments |-> segments,
                             triples |-> FilterAllowed(all_triples, allowed)]]

NumSegments(text) == Len(segment_into_events(clean_text(text)))

(***************************************************************************)
(* Initial_Implementation/pipeline/rdf_exporter.py                         *)
(*                                                                         *)
(* A file is [exists, data]; the data of a Turtle or N-Triples file is its *)
(* text, the data of a JSON-LD file the object handed to json.dump;        *)
(* complete is FALSE when open() truncated the file and the write of data  *)
(* stopped before its end.                                                 *)
(***************************************************************************)
Digits == <<"0", "1", "2", "3", "4", "5", "6", "7", "8", "9">>

\* str(i) of a natural number
RECURSIVE Decimal(_)
Decimal(i) ==
    IF i < 10 THEN <<Digits[i + 1]>>
    ELSE Decimal(i \div 10) \o <<Digits[(i % 10) + 1]>>

\* a slug that numbers its results by the calls made before
slugify_numbered(text) ==
    Replace(Replace(Replace(NFC(text), " ", <<"_">>), "/", <<"_">>),
            "\\", <<"_">>)
    \o (IF history = <<>> THEN <<>> ELSE <<"_">> \o Decimal(Len(history)))

slugify(text) ==
    Replace(Replace(Replace(NFC(text), " ", <<"_">>), "/", <<"_">>),
            "\\", <<"_">>)

\* canonical_entity without entity.strip()
canonical_entity_unstripped(entity) == <<":">> \o slugify(entity)

canonical_entity(entity) == <<":">> \o slugify(Strip(entity))

canonical_event_id(i) == <<":", "Event_">> \o Decimal(i)

TurtleHeader ==
    <<"\n",
      "@prefix : <http://example.org/resource/> .", "\n",
      "@prefix onto: <http://example.org/ontology/> .", "\n",
      "@prefix dbo: <http://dbpedia.org/ontology/> .", "\n",
      "@prefix rdfs: <http://www.w3.org/2000/01/rdf-schema#> .", "\n",
      "\n">>

\* the comment lines of the template: "# " + l for l in template.split("\n")
TemplateComments(template) ==
    LET ls == SplitLines(template)
    IN  [k \in 1..Len(ls) |-> <<"# ">> \o ls[k]]

\* get_event_id without its membership test: every triple takes a new id
RECURSIVE EventMapAfterUnguarded(_, _)
EventMapAfterUnguarded(triples, n) ==
    IF n = 0 THEN EmptyMap
    ELSE LET before == EventMapAfterUnguarded(triples, n - 1)
             subj == triples[n]["subject"]
         IN  [x \in (DOMAIN before) \cup {subj} |->
                 IF x = subj
                 THEN canonical_event_id(Cardinality(DOMAIN before) + 1)
                 ELSE before[x]]

\* get_event_id over the triples up to position n: the event_map after them
RECURSIVE EventMapAfter(_, _)
EventMapAfter(triples, n) ==
    IF n = 0 THEN EmptyMap
    ELSE LET before == EventMapAfter(triples, n - 1)
             subj == triples[n]["subject"]
         IN  IF subj \in DOMAIN before THEN before
             ELSE [x \in (DOMAIN before) \cup {subj} |->
                      IF x = subj
                      THEN canonical_event_id(Cardinality(DOMAIN before) + 1)
                      ELSE before[x]]

\* export_turtle typing a subject only where it is first seen
TurtleLinesOfTypedOnce(triples, n, tbox_class) ==
    LET t == triples[n]
        subj_id == EventMapAfter(triples, n)[t["subject"]]
        obj_id == canonical_entity(t["object"])
        pred == slugify(t["predicate"])
        typed == IF t["subject"] \in DOMAIN EventMapAfter(triples, n - 1)
                 THEN <<>>
                 ELSE << subj_id \o <<" a ", tbox_class, " .">> >>
    IN  typed \o
        << subj_id \o <<" rdfs:label \"">> \o t["subject"] \o <<"\"@ar .">>,
           obj_id \o <<" rdfs:label \"">> \o t["object"] \o <<"\"@ar .">>,
           subj_id \o <<" onto:">> \o pred \o <<" ">> \o obj_id
               \o <<" .", "\n">> >>

\* the four lines export_turtle appends for the n-th triple
TurtleLinesOf(triples, n, tbox_class) ==
    LET t == triples[n]
        subj_id == EventMapAfter(triples, n)[t["subject"]]
        obj_id == canonical_entity(t["object"])
        pred == slugify(t["predicate"])
    IN  << subj_id \o <<" a ", tbox_class, " .">>,
           subj_id \o <<" rdfs:label \"">> \o t["subject"] \o <<"\"@ar .">>,
           obj_id \o <<" rdfs:label \"">> \o t["object"] \o <<"\"@ar .">>,
           subj_id \o <<" onto:">> \o pred \o <<" ">> \o obj_id
               \o <<" .", "\n">> >>

\* export_turtle up to the write: the text, or the exception of the lookup.
\* The template is looked up by theme alone.
TurtleOutput(present, triples, tbox_class, theme) ==
    LET tbox == load_tbox_template(present, theme, None)
    IN  IF tbox.exc # "none" THEN [exc |-> tbox.exc]
        ELSE [exc |-> "none",
              data |-> JoinLines(
                  <<TurtleHeader, <<"# Ontology Template Used">>>>
                  \o TemplateComments(tbox.template)
                  \o << <<>> >>
                  \o Concat([n \in 1..Len(triples) |->
                                TurtleLinesOf(triples, n, tbox_class)]))]

\* the graph-node object export_jsonld appends for the i-th triple
JsonLdNode(t, i, tbox_class) ==
    LET subj == canonical_event_id(i)
        obj == canonical_entity(t["object"])
        pred == <<"http://example.org/ontology/">> \o slugify(t["predicate"])
        keys == {<<"@id">>, <<"@type">>, pred, <<"rdfs:label">>}
    IN  [k \in keys |->
            IF k = <<"rdfs:label">> THEN t["subject"]
            ELSE IF k = pred
                 THEN <<"@id", "http://example.org/resource/">> \o Tail(obj)
            ELSE IF k = <<"@type">> THEN <<tbox_class>>
            ELSE <<"http://example.org/resource/">> \o Tail(subj)]

JsonLdContext ==
    [vocab |-> "http://example.org/resource/",
     rdfs |-> "http://www.w3.org/2000/01/rdf-schema#"]

\* the object export_jsonld dumps; theme is not read
JsonLdOutput(triples, tbox_class, theme) ==
    [exc |-> "none",
     data |-> [context |-> JsonLdContext,
               graph |-> [i \in 1..Len(triples) |->
                             JsonLdNode(triples[i], i, tbox_class)]]]

\* the two lines export_ntriples appends for the i-th triple
NTriplesLinesOf(t, i, tbox_class) ==
    LET subj == <<"<http://example.org/resource/", "Event_">> \o Decimal(i)
                \o <<">">>
        obj == <<"<http://example.org/resource/">> \o slugify(t["object"])
               \o <<">">>
        pred == <<"<http://example.org/ontology/">> \o slugify(t["predicate"])
                \o <<">">>
    IN  << subj \o <<" <http://www.w3.org/1999/02/22-rdf-syntax-ns#type> <",
                     tbox_class, "> .">>,
           subj \o <<" ">> \o pred \o <<" ">> \o obj \o <<" .", "\n">> >>

NTriplesOutput(triples, tbox_class) ==
    [exc |-> "none",
     data |-> JoinLines(Concat([i \in 1..Len(triples) |->
                                   NTriplesLinesOf(triples[i], i, tbox_class)]))]

AllFormats == {"ttl", "jsonld", "nt"}

\* the order in which export_rdf tests the formats
FormatOrder == <<"ttl", "jsonld", "nt">>

PathOf(format) ==
    CASE format = "ttl" -> "triples/graph.ttl"
      [] format = "jsonld" -> "triples/graph.jsonld"
      [] format = "nt" -> "triples/graph.nt"

WriterOutput(present, format, triples, tbox_class, theme) ==
    CASE format = "ttl" -> TurtleOutput(present, triples, tbox_class, theme)
      [] format = "jsonld" -> JsonLdOutput(triples, tbox_class, theme)
      [] format = "nt" -> NTriplesOutput(triples, tbox_class)

\* export_rdf from the k-th format on; acc is [exc, paths, files] so far
RECURSIVE ExportFrom(_, _, _, _, _, _, _)
ExportFrom(present, k, acc, triples, tbox_class, theme, formats) ==
    IF k > Len(FormatOrder) \/ acc.exc # "none" THEN acc
    ELSE LET f == FormatOrder[k]
         IN  IF f \notin formats
             THEN ExportFrom(present, k + 1, acc, triples, tbox_class, theme,
                             formats)
             ELSE LET out == WriterOutput(present, f, triples, tbox_class,
                                          theme)
                  IN  IF out.exc # "none"
                      THEN [acc EXCEPT !.exc = out.exc]
                      ELSE ExportFrom(present, k + 1,
                               [exc |-> "none",
                                paths |-> [g \in (DOMAIN acc.paths) \cup {f} |->
                                              PathOf(g)],
                                files |-> [acc.files EXCEPT ![f] =
                                              [exists |-> TRUE,
                                               data |-> out.data,
                                               complete |-> TRUE]]],
                               triples, tbox_class, theme, formats)

\* export_rdf; formats is None or <<the set of requested names>>
export_rdf(present, files, triples, tbox_class, theme, formats) ==
    ExportFrom(present, 1,
               [exc |-> "none", paths |-> EmptyMap, files |-> files],
               triples, tbox_class, theme,
               IF formats = None THEN AllFormats ELSE formats[1])

\* what the filesystem does with one writer's open(save_path, "w") and write
IoOutcomes == {"ok", "open_fails", "write_fails"}

\* os.makedirs, open(save_path, "w"), the write of data, close: opening
\* creates or truncates the file, so a write that fails after it leaves a
\* file holding a leading part of data in place of what was there
write_file(file, data, io) ==
    CASE io = "ok" ->
            [exc |-> "none",
             file |-> [exists |-> TRUE, data |-> data, complete |-> TRUE]]
      [] io = "open_fails" -> [exc |-> "OSError", file |-> file]
      [] io = "write_fails" ->
            [exc |-> "OSError",
             file |-> [exists |-> TRUE, data |-> data, complete |-> FALSE]]

\* one writer called on its own: [exc, file] and, when it returns, path
WriterCall(present, format, file, triples, tbox_class, theme, io) ==
    LET out == WriterOutput(present, format, triples, tbox_class, theme)
    IN  IF out.exc # "none" THEN [exc |-> out.exc, file |-> file, path |-> None]
        ELSE LET w == write_file(file, out.data, io)
             IN  [exc |-> w.exc, file |-> w.file,
                  path |-> IF w.exc = "none" THEN <<PathOf(format)>>
                           ELSE None]

export_turtle(present, file, triples, tbox_class, theme, io) ==
    WriterCall(present, "ttl", file, triples, tbox_class, theme, io)

export_jsonld(file, triples, tbox_class, theme, io) ==
    WriterCall({}, "jsonld", file, triples, tbox_class, theme, io)

export_ntriples(file, triples, tbox_class, io) ==
    WriterCall({}, "nt", file, triples, tbox_class, "event", io)

(***************************************************************************)
(* Inputs of the graph operations                                          *)
(***************************************************************************)
\* subject/object labels as the extractor may spell them
LabelA == <<"a">>

LabelAPadded == <<" ", "a", " ">>

LabelBC == <<"b", " ", "c">>

LabelBCWide == <<"b", " ", " ", "c">>

LabelD == <<"d">>

GraphTriples ==
    { [subject |-> LabelA, predicate |-> <<"occurredIn">>,
       object |-> LabelBCWide, span |-> <<"s1">>],
      [subject |-> LabelAPadded, predicate |-> <<"hasOutcome", " ">>,
       object |-> LabelBC],
      [subject |-> LabelBC, predicate |-> <<"occurredIn">>,
       object |-> LabelA, span |-> <<"s2">>],
      [subject |-> LabelA, predicate |-> <<"occurredIn">>,
       object |-> LabelD, span |-> <<"s2">>],
      [subject |-> LabelA, predicate |-> <<"originatedIn">>,
       object |-> LabelD, span |-> <<"s3">>] }

Provenance ==
    { [theme |-> "event", tbox |-> "dbo:Event", source |-> "report.pdf"],
      [theme |-> "cultural", tbox |-> "dbo:CulturalHeritageObject",
       source |-> "other.pdf"] }

Slots == 1..NumSlots

(***************************************************************************)
(* Inputs of the pipeline operations                                       *)
(***************************************************************************)
Themes == {"event", "cultural", "other", "festival"}

ValidThemes == {"event", "cultural", "other"}

UserClasses == {None, <<"">>, <<"ex:Monument">>}

Classes == {"dbo:Event", "ex:Monument"}

Texts ==
    { <<>>,
      <<"x", " ", "y">>,
      <<"HAH", "REH", "BEH", "\n", "x">>,
      <<"x", "\n", "HAH", "REH", "BEH", " ", ".", ".", "\n",
        "WAW", "QAF", "AIN", "TEH">> }

\* what the language model may propose for a segment
CandidateTriples ==
    { [subject |-> <<"x">>, predicate |-> <<"occurredIn">>,
       object |-> <<"y">>, span |-> <<"s1">>],
      [subject |-> <<"x">>, predicate |-> <<"originatedIn">>,
       object |-> <<"y">>, span |-> <<"s1">>],
      [subject |-> <<"x">>, predicate |-> <<"occurredIn", " ">>,
       object |-> <<"y">>, span |-> <<"s1">>],
      [subject |-> <<"x">>, predicate |-> <<"ar", "occurredIn">>,
       object |-> <<"y">>, span |-> <<"s1">>],
      [subject |-> <<"x">>, object |-> <<"y">>, span |-> <<"s1">>] }

\* subject U+0645 U+0624 U+062A U+0645 U+0631, space, U+0627 U+0644 U+0645
\* U+0646 U+0627 U+062E; object U+0628 U+0627 U+0631 U+064A U+0633
ClimateTriple ==
    [subject |-> <<"MEEM", "WAW_WITH_HAMZA_ABOVE", "TEH", "MEEM", "REH", " ",
                   "ALEF", "LAM", "MEEM", "NOON", "ALEF", "KHAH">>,
     predicate |-> <<"occurredIn">>,
     object |-> <<"BEH", "ALEF", "REH", "YEH", "SEEN">>,
     span |-> <<"s3">>]

ExportTriples ==
    { [subject |-> <<"x", " ", "y">>, predicate |-> <<"occurredIn">>,
       object |-> <<"y">>, span |-> <<"s1">>],
      [subject |-> <<"x", " ", "y">>, predicate |-> <<"hasOutcome">>,
       object |-> <<" ", "x", "/", "y">>, span |-> <<"s2">>],
      [subject |-> <<"y">>, predicate |-> <<"occurredIn">>,
       object |-> <<"x", " ", "y">>, span |-> <<"s1">>] }

\* the lists handed to the exporters: every list of up to MaxExportTriples
\* of these triples, and the single example triple
ExportLists ==
    SeqsUpTo(ExportTriples, MaxExportTriples) \cup {<<ClimateTriple>>}

FormatChoices == {None} \cup {<<F>> : F \in SUBSET AllFormats}

\* a file left by an earlier export
EarlierData(format) ==
    IF format = "jsonld"
    THEN [context |-> JsonLdContext,
          graph |-> << [k \in {<<"@id">>} |-> <<"earlier export">>] >>]
    ELSE <<"# earlier export">>

NoFile(format) ==
    [exists |-> FALSE, data |-> EarlierData(format), complete |-> TRUE]

EarlierFile(format) ==
    [exists |-> TRUE, data |-> EarlierData(format), complete |-> TRUE]

NoCall == [op |-> "none"]

NoText == [fn |-> "none", input |-> <<>>, outputs |-> <<>>]

\* no invocation under way and no file at any of their paths
NoProcs == <<>>

NoOuts == <<>>

(***************************************************************************)
(* Spec: a pool of graphs under add_triple / build / merge                 *)
(***************************************************************************)
Init ==
    /\ graphs = [i \in Slots |-> EmptyGraph]
    /\ last = [op |-> "none"]
    /\ steps = 0
    /\ ontology = {}
    /\ dirs = FALSE
    /\ fs = [f \in AllFormats |-> NoFile(f)]
    /\ call = NoCall
    /\ history = <<>>
    /\ norm = NoText
    /\ procs = NoProcs
    /\ outs = NoOuts

AddTriple ==
    /\ steps < MaxSteps
    /\ \E i \in Slots, t \in GraphTriples, p \in Provenance :
          /\ graphs' = [graphs EXCEPT ![i] =
                           add_triple(@, t, p.theme, p.tbox, p.source)]
          /\ last' = [op |-> "add_triple", slot |-> i, triple |-> t,
                      prov |-> p, before |-> graphs[i]]
    /\ steps' = steps + 1
    /\ UNCHANGED <<pvars, xvars, cvars>>

Build ==
    /\ steps < MaxSteps
    /\ \E i \in Slots, ts \in SeqsUpTo(GraphTriples, MaxTriples),
          p \in Provenance :
          /\ graphs' = [graphs EXCEPT ![i] =
                           build_graph_from_triples(ts, p.theme, p.tbox,
                                                    p.source)]
          /\ last' = [op |-> "build", slot |-> i, triples |-> ts, prov |-> p]
    /\ steps' = steps + 1
    /\ UNCHANGED <<pvars, xvars, cvars>>

\* mutant: the merge accumulates in the first input graph instead of in a
\* new one
MergeInPlace ==
    /\ steps < MaxSteps
    /\ \E i \in Slots, idx \in SeqsUpTo(Slots, MaxMerge) :
          LET inputs == [k \in 1..Len(idx) |-> graphs[idx[k]]]
              merged == merge_graphs(inputs)
          IN  /\ graphs' = [j \in Slots |->
                               IF j = i \/ (idx # <<>> /\ j = idx[1])
                               THEN merged ELSE graphs[j]]
              /\ last' = [op |-> "merge", slot |-> i, inputs |-> inputs]
    /\ steps' = steps + 1
    /\ UNCHANGED <<pvars, xvars, cvars>>

Merge ==
    /\ steps < MaxSteps
    /\ \E i \in Slots, idx \in SeqsUpTo(Slots, MaxMerge) :
          LET inputs == [k \in 1..Len(idx) |-> graphs[idx[k]]]
          IN  /\ graphs' = [graphs EXCEPT ![i] = merge_graphs(inputs)]
              /\ last' = [op |-> "merge", slot |-> i, inputs |-> inputs]
    /\ steps' = steps + 1
    /\ UNCHANGED <<pvars, xvars, cvars>>

Next == AddTriple \/ Build \/ Merge

Spec == Init /\ [][Next]_vars

(***************************************************************************)
(* SpecPipeline: one invocation from any state of the two directories      *)
(***************************************************************************)
InitPipeline ==
    /\ graphs = [i \in Slots |-> EmptyGraph]
    /\ last = [op |-> "none"]
    /\ steps = 0
    /\ ontology \in SUBSET OntologyFiles
    /\ \/ dirs = FALSE /\ fs = [f \in AllFormats |-> NoFile(f)]
       \/ dirs = TRUE /\ fs = [f \in AllFormats |-> NoFile(f)]
       \/ dirs = TRUE /\ fs = [f \in AllFormats |-> EarlierFile(f)]
    /\ call = NoCall
    /\ history = <<>>
    /\ norm = NoText
    /\ procs = NoProcs
    /\ outs = NoOuts

LoadTboxTemplate ==
    /\ call = NoCall
    /\ \E theme \in Themes, user_tbox \in UserClasses :
          call' = [op |-> "load_tbox_template", theme |-> theme,
                   user_tbox |-> user_tbox,
                   result |-> load_tbox_template(ontology, theme, user_tbox)]
    /\ UNCHANGED <<gvars, ontology, dirs, fs, xvars, cvars>>

GetAllowedPredicates ==
    /\ call = NoCall
    /\ \E theme \in Themes :
          call' = [op |-> "get_allowed_predicates", theme |-> theme,
                   result |-> [exc |-> "none",
                               value |-> get_allowed_predicates(theme)]]
    /\ UNCHANGED <<gvars, ontology, dirs, fs, xvars, cvars>>

GenerateTriples ==
    /\ call = NoCall
    /\ \E text \in Texts, theme \in Themes, user_tbox \in UserClasses :
       \E responses \in [1..NumSegments(text) ->
                            SeqsUpTo(CandidateTriples, MaxCandidates)] :
          call' = [op |-> "generate_triples", text |-> text, theme |-> theme,
                   user_tbox |-> user_tbox,
                   result |-> generate_triples(ontology, text, theme,
                                               user_tbox, responses)]
    /\ UNCHANGED <<gvars, ontology, dirs, fs, xvars, cvars>>

ExportRdf ==
    /\ call = NoCall
    /\ \E triples \in ExportLists,
          tbox_class \in Classes, theme \in Themes,
          formats \in FormatChoices :
          LET r == export_rdf(ontology, fs, triples, tbox_class, theme, formats)
          IN  /\ fs' = r.files
              /\ dirs' = (dirs \/ DOMAIN r.paths # {})
              /\ call' = [op |-> "export_rdf", triples |-> triples,
                          tbox_class |-> tbox_class, theme |-> theme,
                          formats |-> formats, before |-> fs,
                          written |-> DOMAIN r.paths,
                          result |-> [exc |-> r.exc,
                                      paths |-> IF r.exc = "none" THEN r.paths
                                                ELSE EmptyMap]]
    /\ UNCHANGED <<gvars, ontology, xvars, cvars>>

NextPipeline ==
    LoadTboxTemplate \/ GetAllowedPredicates \/ GenerateTriples \/ ExportRdf

SpecPipeline == InitPipeline /\ [][NextPipeline]_vars

(***************************************************************************)
(* SpecExport: up to MaxCalls calls to rdf_exporter.py, one after another  *)
(***************************************************************************)
\* labels handed to slugify and canonical_entity on their own
SlugLabels ==
    { <<"x", " ", "y">>, <<" ", "x", "/", "y">>,
      <<"ALEF", "MADDAH_ABOVE">>, <<"y">> }

InitExport ==
    /\ graphs = [i \in Slots |-> EmptyGraph]
    /\ last = [op |-> "none"]
    /\ steps = 0
    /\ ontology = OntologyFiles
    /\ dirs = FALSE
    /\ fs = [f \in AllFormats |-> NoFile(f)]
    /\ call = NoCall
    /\ history = <<>>
    /\ norm = NoText
    /\ procs = NoProcs
    /\ outs = NoOuts

\* the call c is made: it becomes the latest and joins the history
Called(c) ==
    /\ Len(history) < MaxCalls
    /\ call' = c
    /\ history' = Append(history, c)
    /\ UNCHANGED <<gvars, ontology, norm, cvars>>

Slugify ==
    /\ \E label \in SlugLabels :
          Called([op |-> "slugify", label |-> label,
                  result |-> [exc |-> "none", value |-> slugify(label)]])
    /\ UNCHANGED <<dirs, fs>>

CanonicalEntity ==
    /\ \E entity \in SlugLabels :
          Called([op |-> "canonical_entity", label |-> entity,
                  result |-> [exc |-> "none",
                              value |-> canonical_entity(entity)]])
    /\ UNCHANGED <<dirs, fs>>

CanonicalEventId ==
    /\ \E i \in 1..MaxExportTriples :
          Called([op |-> "canonical_event_id", i |-> i,
                  result |-> [exc |-> "none", value |-> canonical_event_id(i)]])
    /\ UNCHANGED <<dirs, fs>>

\* a writer's call record and its effect on its file
Wrote(format, triples, tbox_class, theme, io, r) ==
    /\ Called([op |-> "export", format |-> format, triples |-> triples,
               tbox_class |-> tbox_class, theme |-> theme, io |-> io,
               before |-> fs,
               result |-> [exc |-> r.exc, path |-> r.path]])
    /\ fs' = [fs EXCEPT ![format] = r.file]
    /\ dirs' = (dirs \/ r.exc # "ValueError")

ExportTurtle ==
    \E triples \in ExportLists,
       tbox_class \in Classes, theme \in {"event", "other"},
       io \in IoOutcomes :
       Wrote("ttl", triples, tbox_class, theme, io,
             export_turtle(ontology, fs["ttl"], triples, tbox_class, theme,
                           io))

ExportJsonld ==
    \E triples \in ExportLists,
       tbox_class \in Classes, io \in IoOutcomes :
       Wrote("jsonld", triples, tbox_class, "event", io,
             export_jsonld(fs["jsonld"], triples, tbox_class, "event", io))

ExportNtriples ==
    \E triples \in ExportLists,
       tbox_class \in Classes, io \in IoOutcomes :
       Wrote("nt", triples, tbox_class, "event", io,
             export_ntriples(fs["nt"], triples, tbox_class, io))

NextExport ==
    Slugify \/ CanonicalEntity \/ CanonicalEventId \/ ExportTurtle
    \/ ExportJsonld \/ ExportNtriples

SpecExport == InitExport /\ [][NextExport]_vars

(***************************************************************************)
(* SpecText: a normalizer applied to a text, then to its own output, or    *)
(* segment_into_events applied to a text                                   *)
(***************************************************************************)
\* ASCII letters, space, full stop; U+0301; U+0627, U+0640, U+0653, U+06D6
TextSymbols ==
    {"x", "e", " ", ".", "COMBINING_ACUTE", "ALEF", "TATWEEL", "MADDAH_ABOVE",
     "SMALL_HIGH_SAD_LAM_ALEF_MAKSURA"}

Ascii == {"x", "e", " ", "."}

\* how often a normalizer is applied to its own output
Applications == 2

\* the lines the segmented texts are made of: blank, plain, padded, and
\* lines holding one of the markers
SegmentLines ==
    { <<>>,
      <<"x">>,
      <<" ", "x", " ">>,
      <<"HAH", "REH", "BEH">>,
      <<"x", " ", "WAW", "QAF", "AIN", "TEH", " ">> }

SegmentTexts == {JoinLines(ls) : ls \in SeqsUpTo(SegmentLines, MaxLines)}

InitText ==
    /\ graphs = [i \in Slots |-> EmptyGraph]
    /\ last = [op |-> "none"]
    /\ steps = 0
    /\ ontology = OntologyFiles
    /\ dirs = FALSE
    /\ fs = [f \in AllFormats |-> NoFile(f)]
    /\ call = NoCall
    /\ history = <<>>
    /\ \E input \in SeqsUpTo(TextSymbols, MaxTextLen) \cup SegmentTexts :
          norm = [fn |-> "none", input |-> input, outputs |-> <<>>]
    /\ procs = NoProcs
    /\ outs = NoOuts

\* the text the next application gets: the input, then the last output
Argument ==
    IF norm.outputs = <<>> THEN norm.input
    ELSE norm.outputs[Len(norm.outputs)]

Applied(fn, output) ==
    /\ norm.fn \in {"none", fn}
    /\ Len(norm.outputs) < Applications
    /\ norm' = [norm EXCEPT !.fn = fn, !.outputs = Append(@, output)]
    /\ UNCHANGED <<gvars, pvars, history, cvars>>

NormalizeArabic == Applied("normalize_arabic", normalize_arabic(Argument))

NormalizeEnglish == Applied("normalize_english", normalize_english(Argument))

CleanText == Applied("clean_text", clean_text(Argument))

\* segment_into_events(text): the one output is the list of segments
SegmentIntoEvents ==
    /\ norm.fn = "none"
    /\ norm' = [norm EXCEPT !.fn = "segment_into_events",
                            !.outputs = <<segment_into_events(norm.input)>>]
    /\ UNCHANGED <<gvars, pvars, history, cvars>>

NextText ==
    NormalizeArabic \/ NormalizeEnglish \/ CleanText \/ SegmentIntoEvents

SpecText == InitText /\ [][NextText]_vars

(***************************************************************************)
(* SpecConcurrent: invocations of build_graph_from_triples followed by     *)
(* export_turtle, run side by side.  Each invocation holds the locals of   *)
(* its two calls: G and the loop position of build_graph_from_triples;     *)
(* lines, event_map, event_counter and the loop position of export_turtle. *)
(* A step is one loop iteration, the statements between two loops, or the  *)
(* write of the file.                                                      *)
(***************************************************************************)
Invocations == 1..NumInvocations

\* the save_path of invocation k: the paths are pairwise distinct
SavePath(k) == <<"triples/graph_", k, ".ttl">>

ConcurrentThemes == {"event", "other"}

InitConcurrent ==
    /\ graphs = [i \in Slots |-> EmptyGraph]
    /\ last = [op |-> "none"]
    /\ steps = 0
    /\ ontology = OntologyFiles
    /\ dirs = FALSE
    /\ fs = [f \in AllFormats |-> NoFile(f)]
    /\ call = NoCall
    /\ history = <<>>
    /\ norm = NoText
    /\ procs \in [Invocations ->
                    {[pc |-> "build", triples |-> ts, tbox_class |-> "dbo:Event",
                      theme |-> th, G |-> EmptyGraph, i |-> 1, lines |-> <<>>,
                      event_map |-> EmptyMap, event_counter |-> 1] :
                        ts \in SeqsUpTo(ExportTriples, MaxExportTriples),
                        th \in ConcurrentThemes}]
    /\ outs = [k \in Invocations |-> NoFile("ttl")]

\* invocation k takes a step that leaves it as the record p
Stepped(k, p) ==
    /\ procs' = [procs EXCEPT ![k] = p]
    /\ UNCHANGED <<gvars, ontology, fs, call, xvars>>

\* one iteration of "for t in triples: add_triple(G, t, ...)"
BuildIteration(k) ==
    LET p == procs[k]
    IN  /\ p.pc = "build"
        /\ p.i <= Len(p.triples)
        /\ Stepped(k, [p EXCEPT !.G = add_triple(@, p.triples[p.i], p.theme,
                                                p.tbox_class, "report.pdf"),
                                !.i = @ + 1])
        /\ UNCHANGED <<dirs, outs>>

\* build_graph_from_triples returns; export_turtle up to its loop: header,
\* template lookup by theme alone, event_map = {}, event_counter = 1
ExportStart(k) ==
    LET p == procs[k]
        tbox == load_tbox_template(ontology, p.theme, None)
    IN  /\ p.pc = "build"
        /\ p.i > Len(p.triples)
        /\ Stepped(k, IF tbox.exc # "none"
                      THEN [p EXCEPT !.pc = "raised"]
                      ELSE [p EXCEPT !.pc = "export", !.i = 1,
                                     !.lines =
                                         <<TurtleHeader,
                                           <<"# Ontology Template Used">>>>
                                         \o TemplateComments(tbox.template)
                                         \o << <<>> >>,
                                     !.event_map = EmptyMap,
                                     !.event_counter = 1])
        /\ UNCHANGED <<dirs, outs>>

\* get_event_id(subj) on the event_map and event_counter of one invocation
get_event_id(event_map, event_counter, subj) ==
    IF subj \in DOMAIN event_map
    THEN [event_map |-> event_map, event_counter |-> event_counter,
          id |-> event_map[subj]]
    ELSE [event_map |-> [x \in (DOMAIN event_map) \cup {subj} |->
                            IF x = subj THEN canonical_event_id(event_counter)
                            ELSE event_map[x]],
          event_counter |-> event_counter + 1,
          id |-> canonical_event_id(event_counter)]

\* the invocation k after one iteration of the loop of export_turtle
AfterExportIteration(k) ==
    LET p == procs[k]
        t == p.triples[p.i]
        e == get_event_id(p.event_map, p.event_counter, t["subject"])
        obj_id == canonical_entity(t["object"])
        pred == slugify(t["predicate"])
    IN  [p EXCEPT
            !.event_map = e.event_map,
            !.event_counter = e.event_counter,
            !.i = @ + 1,
            !.lines = @ \o
                << e.id \o <<" a ", p.tbox_class, " .">>,
                   e.id \o <<" rdfs:label \"">> \o t["subject"]
                       \o <<"\"@ar .">>,
                   obj_id \o <<" rdfs:label \"">> \o t["object"]
                       \o <<"\"@ar .">>,
                   e.id \o <<" onto:">> \o pred \o <<" ">> \o obj_id
                       \o <<" .", "\n">> >>]

\* mutant: event_counter is one variable of the module, so advancing it
\* advances it for every invocation
ExportIterationSharedCounter(k) ==
    /\ procs[k].pc = "export"
    /\ procs[k].i <= Len(procs[k].triples)
    /\ procs' = [j \in Invocations |->
                    IF j = k THEN AfterExportIteration(k)
                    ELSE [procs[j] EXCEPT !.event_counter =
                                 AfterExportIteration(k).event_counter]]
    /\ UNCHANGED <<gvars, pvars, xvars, outs>>

\* one iteration of "for t in triples:" in export_turtle
ExportIteration(k) ==
    /\ procs[k].pc = "export"
    /\ procs[k].i <= Len(procs[k].triples)
    /\ Stepped(k, AfterExportIteration(k))
    /\ UNCHANGED <<dirs, outs>>

\* "\n".join(lines), os.makedirs(..., exist_ok=True), open, write, return
ExportWrite(k) ==
    LET p == procs[k]
    IN  /\ p.pc = "export"
        /\ p.i > Len(p.triples)
        /\ Stepped(k, [p EXCEPT !.pc = "done"])
        /\ dirs' = TRUE
        /\ outs' = [outs EXCEPT ![k] =
                       write_file(@, JoinLines(p.lines), "ok").file]

NextConcurrent ==
    \E k \in Invocations :
        \/ BuildIteration(k)
        \/ ExportStart(k)
        \/ ExportIteration(k)
        \/ ExportWrite(k)

SpecConcurrent == InitConcurrent /\ [][NextConcurrent]_vars

(***************************************************************************)
(* Properties of the graph operations                                      *)
(***************************************************************************)
Subj(t) == normalize_label(t["subject"])

Obj(t) == normalize_label(t["object"])

Pair(t) == <<Subj(t), Obj(t)>>

NodeIds(G) == DOMAIN G.node

EdgeIds(G) == DOMAIN G.edge

SameMembers(G, H) == NodeIds(G) = NodeIds(H) /\ EdgeIds(G) = EdgeIds(H)

\* the edge attributes add_triple writes for triple t under provenance p
WrittenEdge(t, p) ==
    EdgeAttrs(normalize_label(t["predicate"]), p.theme, p.tbox,
              DictGet(t, "span", <<>>), p.source)

\* C1: in every graph reachable from the empty graph by add_triple, build and
\* merge, both endpoints of every edge are nodes of that same graph.
C1_EndpointsAreNodes ==
    \A i \in Slots : \A e \in EdgeIds(graphs[i]) :
        e[1] \in NodeIds(graphs[i]) /\ e[2] \in NodeIds(graphs[i])

C1_Witness ==
    /\ last.op = "merge"
    /\ Cardinality(EdgeIds(graphs[last.slot])) >= 2
    /\ Cardinality(NodeIds(graphs[last.slot])) >= 3

LastFor(ts, e) ==
    ts[CHOOSE k \in 1..Len(ts) :
          /\ Pair(ts[k]) = e
          /\ \A j \in (k + 1)..Len(ts) : Pair(ts[j]) # e]

\* C3: a graph holds one edge per ordered (subject, object) pair, carrying
\* the predicate, span and provenance of the most recent add_triple for that
\* pair; every other edge, the reverse pair included, is left as it was.
C3_EdgePerPairLatestWins ==
    /\ last.op = "add_triple" =>
          LET G == graphs[last.slot]
              B == last.before
              e == Pair(last.triple)
          IN  /\ EdgeIds(G) = EdgeIds(B) \cup {e}
              /\ G.edge[e] = WrittenEdge(last.triple, last.prov)
              /\ \A f \in EdgeIds(B) \ {e} : G.edge[f] = B.edge[f]
    /\ last.op = "build" =>
          LET G == graphs[last.slot]
              ts == last.triples
          IN  /\ EdgeIds(G) = {Pair(ts[k]) : k \in 1..Len(ts)}
              /\ \A e \in EdgeIds(G) :
                    G.edge[e] = WrittenEdge(LastFor(ts, e), last.prov)

C3_Witness ==
    /\ last.op = "add_triple"
    /\ LET B == last.before
           e == Pair(last.triple)
       IN  /\ e \in EdgeIds(B)
           /\ B.edge[e]["predicate"] # normalize_label(last.triple["predicate"])
           /\ <<e[2], e[1]>> \in EdgeIds(B)
           /\ graphs[last.slot].edge[<<e[2], e[1]>>] = B.edge[<<e[2], e[1]>>]

\* C4: merge of the empty list is the empty graph, and merge of a one-graph
\* list has that graph's nodes and edges with equal attribute values.
C4_MergeEmptyAndSingle ==
    last.op = "merge" =>
        /\ Len(last.inputs) = 0 => graphs[last.slot] = EmptyGraph
        /\ Len(last.inputs) = 1 => graphs[last.slot] = last.inputs[1]

C4_Witness ==
    /\ last.op = "merge"
    /\ Len(last.inputs) = 1
    /\ Cardinality(EdgeIds(last.inputs[1])) >= 2

Orderings(n) ==
    {f \in [1..n -> 1..n] : \A i, j \in 1..n : i # j => f[i] # f[j]}

Permuted(gs, f) == [k \in 1..Len(gs) |-> gs[f[k]]]

\* C5: the node ids and edge pairs of merge(gs) are the unions of those of
\* the inputs, the same for every permutation of gs and for every nesting of
\* merges over a split of gs.
C5_MembershipIsUnion ==
    last.op = "merge" =>
        LET G == graphs[last.slot]
            gs == last.inputs
            n == Len(gs)
        IN  /\ NodeIds(G) = UNION {NodeIds(gs[k]) : k \in 1..n}
            /\ EdgeIds(G) = UNION {EdgeIds(gs[k]) : k \in 1..n}
            /\ \A f \in Orderings(n) :
                  SameMembers(merge_graphs(Permuted(gs, f)), G)
            /\ \A k \in 0..n :
                  LET left == merge_graphs(SubSeq(gs, 1, k))
                      right == SubSeq(gs, k + 1, n)
                      rightMerged == merge_graphs(right)
                  IN  /\ SameMembers(merge_graphs(<<left>> \o right), G)
                      /\ SameMembers(merge_graphs(SubSeq(gs, 1, k)
                                                  \o <<rightMerged>>), G)
                      /\ SameMembers(merge_graphs(<<rightMerged, left>>), G)

C5_Witness ==
    /\ last.op = "merge"
    /\ Len(last.inputs) = 3
    /\ EdgeIds(last.inputs[1]) # {}
    /\ EdgeIds(last.inputs[2]) # {}
    /\ ~ (EdgeIds(last.inputs[1]) \subseteq EdgeIds(last.inputs[2]))
    /\ ~ (EdgeIds(last.inputs[2]) \subseteq EdgeIds(last.inputs[1]))
    /\ last.inputs[3] = last.inputs[1]

\* the value of attribute k in the last graph of gs whose dict d(g) has the
\* key x with attribute k
LastWriter(gs, Dict(_), x, k) ==
    LET holders == {j \in 1..Len(gs) :
                       x \in DOMAIN Dict(gs[j]) /\ k \in DOMAIN Dict(gs[j])[x]}
        j == CHOOSE m \in holders : \A o \in holders : o <= m
    IN  Dict(gs[j])[x][k]

NodeDict(g) == g.node

EdgeDict(g) == g.edge

\* C6: for a node id or an ordered edge pair held by several input graphs,
\* every attribute of the merged graph has the value of the last graph in
\* argument order that holds it.
C6_LastWriterWins ==
    last.op = "merge" =>
        LET G == graphs[last.slot]
            gs == last.inputs
        IN  /\ \A n \in NodeIds(G) : \A k \in DOMAIN G.node[n] :
                  G.node[n][k] = LastWriter(gs, NodeDict, n, k)
            /\ \A e \in EdgeIds(G) : \A k \in DOMAIN G.edge[e] :
                  G.edge[e][k] = LastWriter(gs, EdgeDict, e, k)

\* merge([A, B]) and merge([B, A]) with the same members, different values
C6_Witness ==
    /\ last.op = "merge"
    /\ Len(last.inputs) = 2
    /\ LET G == graphs[last.slot]
           R == merge_graphs(<<last.inputs[2], last.inputs[1]>>)
       IN  /\ SameMembers(G, R)
           /\ \E n \in NodeIds(G) : G.node[n]["theme"] # R.node[n]["theme"]
           /\ \E e \in EdgeIds(G) : G.edge[e]["predicate"] # R.edge[e]["predicate"]

(***************************************************************************)
(* Properties of the pipeline operations                                   *)
(***************************************************************************)
\* xs is ys with some elements left out: same elements, same relative order
RECURSIVE IsSubsequence(_, _)
IsSubsequence(xs, ys) ==
    IF xs = <<>> THEN TRUE
    ELSE IF ys = <<>> THEN FALSE
    ELSE IF Head(xs) = Head(ys) THEN IsSubsequence(Tail(xs), Tail(ys))
    ELSE IsSubsequence(xs, Tail(ys))

\* the theme's template file
TemplateFileOf(theme) ==
    CASE theme = "event" -> "event.tbox.ttl"
      [] theme = "cultural" -> "cultural.tbox.ttl"
      [] theme = "other" -> "custom.tbox.ttl"

PlaceholderFor(theme) ==
    <<"# WARNING: Missing T-Box file: ", TemplateFileOf(theme)>>

C8_UnknownThemeNoOutput ==
    (call.op # "none" /\ call.theme \notin ValidThemes) =>
        /\ call.op = "load_tbox_template" => call.result.exc = "ValueError"
        /\ call.op = "get_allowed_predicates" =>
              DOMAIN call.result.value = {}
        /\ call.op = "generate_triples" =>
              call.result.exc = "ValueError" /\ call.result.sent = <<>>
        /\ call.op = "export_rdf" =>
              /\ call.written = {}
              /\ DOMAIN call.result.paths = {}
              /\ fs = call.before

\* C9: load_tbox_template("other", user_tbox) raises when no class is
\* given and otherwise returns the given class; for "event" and "cultural"
\* it returns the built-in class whatever user_tbox is.
C9_OtherNeedsUserClass ==
    call.op = "load_tbox_template" =>
        /\ (call.theme = "other" /\ ~ Truthy(call.user_tbox)) =>
              call.result.exc = "ValueError"
        /\ (call.theme = "other" /\ Truthy(call.user_tbox)) =>
              /\ call.result.exc = "none"
              /\ call.result.class = call.user_tbox[1]
        /\ call.theme = "event" =>
              call.result.exc = "none" /\ call.result.class = "dbo:Event"
        /\ call.theme = "cultural" =>
              /\ call.result.exc = "none"
              /\ call.result.class = "dbo:CulturalHeritageObject"

C9_Witness ==
    /\ call.op = "load_tbox_template"
    /\ call.theme = "event"
    /\ call.user_tbox = <<"ex:Monument">>
    /\ call.result.exc = "none"
    /\ call.result.class = "dbo:Event"

\* C10 as stated: for each valid theme whose template file is missing,
\* load_tbox_template returns the placeholder and the class, and a Turtle
\* export completes and writes graph.ttl with the placeholder as comment.
C10_MissingTemplateNotFatal ==
    /\ (call.op = "load_tbox_template"
           /\ call.theme \in ValidThemes
           /\ TemplateFileOf(call.theme) \notin ontology
           /\ (call.theme = "other" => Truthy(call.user_tbox))) =>
          /\ call.result.exc = "none"
          /\ call.result.template = PlaceholderFor(call.theme)
    /\ (call.op = "export_rdf"
           /\ call.theme \in ValidThemes
           /\ TemplateFileOf(call.theme) \notin ontology
           /\ (call.formats = None \/ "ttl" \in call.formats[1])) =>
          /\ call.result.exc = "none"
          /\ "ttl" \in DOMAIN call.result.paths
          /\ fs["ttl"].exists
          /\ Contains(fs["ttl"].data,
                      <<"\n", "# ">> \o PlaceholderFor(call.theme) \o <<"\n">>)

\* the part of C10 the code keeps: themes "event" and "cultural"
C10_HoldsForBuiltInThemes ==
    (call.op # "none" /\ call.theme = "other") \/ C10_MissingTemplateNotFatal

\* C11 as stated: for every valid theme and every set F of formats,
\* export_rdf completes, returns a mapping whose keys are exactly F, each
\* value the path its writer wrote; the writers outside F write nothing and
\* a format's output is the same whatever else is requested.
C11_EverySubsetExports ==
    (call.op = "export_rdf" /\ call.theme \in ValidThemes
        /\ call.formats # None) =>
        LET F == call.formats[1]
        IN  /\ call.result.exc = "none"
            /\ DOMAIN call.result.paths = F
            /\ \A f \in F :
                  /\ call.result.paths[f] = PathOf(f)
                  /\ fs[f].exists
                  /\ fs[f].data = WriterOutput(ontology, f, call.triples,
                                               call.tbox_class,
                                               call.theme).data
            /\ \A f \in AllFormats \ F : fs[f] = call.before[f]

\* the part of C11 the code keeps: every call that does not ask the Turtle
\* writer for theme "other"
C11_HoldsUnlessOtherTurtle ==
    \/ /\ call.op = "export_rdf"
       /\ call.theme = "other"
       /\ call.formats # None
       /\ "ttl" \in call.formats[1]
    \/ C11_EverySubsetExports

(***************************************************************************)
(* Properties of the exporters                                             *)
(***************************************************************************)
\* position of the first occurrence of symbol sym in line l, 0 when absent
FirstIndex(l, sym) ==
    IF \E j \in 1..Len(l) : l[j] = sym
    THEN CHOOSE j \in 1..Len(l) :
            l[j] = sym /\ \A i \in 1..(j - 1) : l[i] # sym
    ELSE 0

\* a Turtle line ':Event_<n> rdfs:label "<text>"@ar .'
IsEventLabelLine(l) ==
    /\ Len(l) >= 2
    /\ l[1] = ":"
    /\ l[2] = "Event_"
    /\ FirstIndex(l, " rdfs:label \"") > 0

EventLabelLines(ttl) == SelectSeq(SplitLines(ttl), IsEventLabelLine)

\* the identifier a label line starts with, and the text it quotes
IdOf(l) == SubSeq(l, 1, FirstIndex(l, " rdfs:label \"") - 1)

LabelOf(l) == SubSeq(l, FirstIndex(l, " rdfs:label \"") + 1, Len(l) - 1)

TurtleExported ==
    call.op = "export" /\ call.format = "ttl" /\ call.result.exc = "none"

\* C12: in the Turtle text of one export call the subject ids are exactly
\* Event_1..Event_k for the k distinct subject strings: equal ids iff equal
\* subjects, a subject first seen earlier has the lower number, and the
\* numbering starts at 1 whatever calls were made before.
C12_EventIdsFirstSeenPerCall ==
    TurtleExported =>
        LET T == call.triples
            L == EventLabelLines(fs["ttl"].data)
            k == Cardinality({T[n]["subject"] : n \in 1..Len(T)})
            FirstAt(n) == \A j \in 1..(n - 1) : T[j]["subject"] # T[n]["subject"]
            Number(n) == CHOOSE i \in 1..Len(T) :
                            canonical_event_id(i) = IdOf(L[n])
        IN  /\ Len(L) = Len(T)
            /\ \A n \in 1..Len(T) : LabelOf(L[n]) = T[n]["subject"]
            /\ {IdOf(L[n]) : n \in 1..Len(T)}
                  = {canonical_event_id(i) : i \in 1..k}
            /\ \A m, n \in 1..Len(T) :
                  (IdOf(L[m]) = IdOf(L[n]))
                     <=> (T[m]["subject"] = T[n]["subject"])
            /\ \A m, n \in 1..Len(T) :
                  (m < n /\ FirstAt(m) /\ FirstAt(n)) => Number(m) < Number(n)

\* a second Turtle export with a repeated subject, after one that numbered
\* two subjects
C12_Witness ==
    /\ TurtleExported
    /\ Len(history) = 2
    /\ history[1].op = "export"
    /\ history[1].format = "ttl"
    /\ history[1].result.exc = "none"
    /\ Len(history[1].triples) = 2
    /\ history[1].triples[1]["subject"] # history[1].triples[2]["subject"]
    /\ Len(call.triples) = 2
    /\ call.triples[1]["subject"] = call.triples[2]["subject"]
    /\ IdOf(EventLabelLines(fs["ttl"].data)[2]) = canonical_event_id(1)

\* a Turtle export that numbers two distinct subjects
C12_TwoSubjects ==
    /\ TurtleExported
    /\ Len(call.triples) = 2
    /\ call.triples[1]["subject"] # call.triples[2]["subject"]
    /\ IdOf(EventLabelLines(fs["ttl"].data)[2]) = canonical_event_id(2)

\* the symbols of line l between the first mark and the next symbol stop
Between(l, mark, stop) ==
    LET from == FirstIndex(l, mark) + 1
        rest == SubSeq(l, from, Len(l))
    IN  SubSeq(rest, 1, FirstIndex(rest, stop) - 1)

\* Turtle: ':Event_n a <class> .' and ':Event_n onto:<p> :<o> .'
IsTurtleTypeLine(l) == Len(l) >= 2 /\ l[1] = ":" /\ FirstIndex(l, " a ") > 0

IsTurtlePredicateLine(l) ==
    Len(l) >= 2 /\ l[1] = ":" /\ FirstIndex(l, " onto:") > 0

\* N-Triples: '<s> <rdf:type> <class> .' and '<s> <onto/p> <o> .'
IsNTriplesTypeLine(l) ==
    FirstIndex(l, " <http://www.w3.org/1999/02/22-rdf-syntax-ns#type> <") > 0

IsNTriplesPredicateLine(l) ==
    FirstIndex(l, "<http://example.org/ontology/") > 0

\* JSON-LD: the keys of a node other than @id, @type and rdfs:label
PredicateKeys(node) ==
    DOMAIN node \ {<<"@id">>, <<"@type">>, <<"rdfs:label">>}

ExportedAllThree ==
    /\ call.op = "export_rdf"
    /\ call.result.exc = "none"
    /\ DOMAIN call.result.paths = AllFormats

\* C13: when one triple list T is exported to Turtle, JSON-LD and
\* N-Triples, each output holds exactly Len(T) type statements and Len(T)
\* predicate statements, the n-th ones being those of the n-th triple,
\* also when subjects repeat in T.
C13_OneTypeOnePredicatePerTriple ==
    ExportedAllThree =>
        LET T == call.triples
            N == 1..Len(T)
            P(n) == slugify(T[n]["predicate"])
            ttl == SplitLines(fs["ttl"].data)
            ttlTypes == SelectSeq(ttl, IsTurtleTypeLine)
            ttlPreds == SelectSeq(ttl, IsTurtlePredicateLine)
            nt == SplitLines(fs["nt"].data)
            ntTypes == SelectSeq(nt, IsNTriplesTypeLine)
            ntPreds == SelectSeq(nt, IsNTriplesPredicateLine)
            graph == fs["jsonld"].data.graph
        IN  /\ Len(ttlTypes) = Len(T) /\ Len(ttlPreds) = Len(T)
            /\ Len(ntTypes) = Len(T) /\ Len(ntPreds) = Len(T)
            /\ Len(graph) = Len(T)
            /\ \A n \in N :
                  /\ Between(ttlTypes[n], " a ", " .") = <<call.tbox_class>>
                  /\ Between(ttlPreds[n], " onto:", " ") = P(n)
                  /\ Between(ntPreds[n], "<http://example.org/ontology/", ">")
                        = P(n)
                  /\ <<"@type">> \in DOMAIN graph[n]
                  /\ graph[n][<<"@type">>] = <<call.tbox_class>>
                  /\ PredicateKeys(graph[n])
                        = {<<"http://example.org/ontology/">> \o P(n)}

C13_Witness ==
    /\ ExportedAllThree
    /\ Len(call.triples) = 2
    /\ call.triples[1]["subject"] = call.triples[2]["subject"]
    /\ call.triples[1]["predicate"] # call.triples[2]["predicate"]
    /\ Len(SelectSeq(SplitLines(fs["ttl"].data), IsTurtleTypeLine)) = 2
    /\ Len(SelectSeq(SplitLines(fs["nt"].data), IsNTriplesTypeLine)) = 2
    /\ Len(fs["jsonld"].data.graph) = 2

TurtleWritten ==
    /\ call.op = "export_rdf"
    /\ call.result.exc = "none"
    /\ "ttl" \in DOMAIN call.result.paths

HasLine(lines, l) == \E k \in 1..Len(lines) : lines[k] = l

\* ':Event_i' for the n-th triple of T: i counts the distinct subjects up to
\* and including the first occurrence of T[n]'s subject
EventIdOf(T, n) ==
    LET first == CHOOSE j \in 1..n :
                    /\ T[j]["subject"] = T[n]["subject"]
                    /\ \A h \in 1..(j - 1) : T[h]["subject"] # T[n]["subject"]
    IN  <<":", "Event_">>
        \o Decimal(Cardinality({T[j]["subject"] : j \in 1..first}))

\* the example of the claim: the single triple (U+0645 U+0624 U+062A ...,
\* occurredIn, U+0628 U+0627 U+0631 U+064A U+0633) typed dbo:Event
ClimateExampleLines ==
    (call.triples = <<ClimateTriple>> /\ call.tbox_class = "dbo:Event"
        /\ call.theme = "event") =>
        LET lines == SplitLines(fs["ttl"].data)
        IN  /\ HasLine(lines, <<":", "Event_", "1", " a ", "dbo:Event", " .">>)
            /\ HasLine(lines, <<":", "Event_", "1", " onto:", "occurredIn",
                                " ", ":", "BEH", "ALEF", "REH", "YEH", "SEEN",
                                " .">>)

\* C14 as stated: the Turtle text holds, for each triple (s, p, o) with the
\* i-th distinct subject, the lines ':Event_i a C .', ':Event_i rdfs:label
\* "s"@ar .' and ':Event_i onto:slug(p) :slug(o) .'
C14_TurtleLinesSlugOfObject ==
    TurtleWritten =>
        LET T == call.triples
            lines == SplitLines(fs["ttl"].data)
        IN  /\ \A n \in 1..Len(T) :
                  LET id == EventIdOf(T, n)
                  IN  /\ HasLine(lines, id \o <<" a ", call.tbox_class, " .">>)
                      /\ HasLine(lines, id \o <<" rdfs:label \"">>
                                        \o T[n]["subject"] \o <<"\"@ar .">>)
                      /\ HasLine(lines, id \o <<" onto:">>
                                        \o slugify(T[n]["predicate"])
                                        \o <<" ", ":">>
                                        \o slugify(T[n]["object"])
                                        \o <<" .">>)
            /\ ClimateExampleLines

\* C14 amended: the object is named by the slug of the trimmed object text
C14_TurtleLinesSlugOfTrimmedObject ==
    TurtleWritten =>
        LET T == call.triples
            lines == SplitLines(fs["ttl"].data)
        IN  /\ \A n \in 1..Len(T) :
                  LET id == EventIdOf(T, n)
                  IN  /\ HasLine(lines, id \o <<" a ", call.tbox_class, " .">>)
                      /\ HasLine(lines, id \o <<" rdfs:label \"">>
                                        \o T[n]["subject"] \o <<"\"@ar .">>)
                      /\ HasLine(lines, id \o <<" onto:">>
                                        \o slugify(T[n]["predicate"])
                                        \o <<" ", ":">>
                                        \o slugify(Strip(T[n]["object"]))
                                        \o <<" .">>)
            /\ ClimateExampleLines

\* an export whose second triple repeats the first subject and has an
\* object that starts with a space
C14_Witness ==
    /\ TurtleWritten
    /\ Len(call.triples) = 2
    /\ call.triples[1]["subject"] = call.triples[2]["subject"]
    /\ call.triples[2]["object"] = <<" ", "x", "/", "y">>
    /\ HasLine(SplitLines(fs["ttl"].data),
               <<":", "Event_", "1", " onto:", "hasOutcome", " ", ":", "x",
                 "_", "y", " .">>)

\* the export of the claim's example
C14_ClimateExported ==
    /\ TurtleWritten
    /\ call.triples = <<ClimateTriple>>
    /\ call.tbox_class = "dbo:Event"
    /\ call.theme = "event"

JsonLdAndNTriplesWritten ==
    /\ call.op = "export_rdf"
    /\ call.result.exc = "none"
    /\ {"jsonld", "nt"} \subseteq DOMAIN call.result.paths

\* '<http://example.org/resource/Event_n>'
ResourceIri(n) ==
    <<"<http://example.org/resource/", "Event_">> \o Decimal(n) \o <<">">>

\* class names written with a namespace prefix ('dbo:', 'ex:') in place of
\* the namespace IRI
PrefixedNames == {"dbo:Event", "dbo:CulturalHeritageObject", "ex:Monument"}

\* a term '<scheme://...>': an IRI with a scheme, not a prefixed name
IsFullIri(term) ==
    /\ Len(term) >= 2
    /\ term[1] \in {"<http://example.org/resource/",
                    "<http://example.org/ontology/"}
    /\ term[Len(term)] = ">"

\* C15: JSON-LD and N-Triples name the subject of the n-th triple Event_n
\* by position, whatever its text, so there is one node and one pair of
\* statements per triple also when subjects repeat; the N-Triples type and
\* predicate statements write subject, predicate, object and ontology class
\* as fully-qualified IRIs.
C15_PositionalIdsAndFullIris ==
    JsonLdAndNTriplesWritten =>
        LET T == call.triples
            graph == fs["jsonld"].data.graph
            nt == SplitLines(fs["nt"].data)
            types == SelectSeq(nt, IsNTriplesTypeLine)
            preds == SelectSeq(nt, IsNTriplesPredicateLine)
            typeMark == " <http://www.w3.org/1999/02/22-rdf-syntax-ns#type> <"
        IN  /\ Len(graph) = Len(T)
            /\ Len(types) = Len(T)
            /\ Len(preds) = Len(T)
            /\ \A n \in 1..Len(T) :
                  /\ graph[n][<<"@id">>]
                        = <<"http://example.org/resource/", "Event_">>
                          \o Decimal(n)
                  /\ graph[n][<<"rdfs:label">>] = T[n]["subject"]
                  /\ SubSeq(types[n], 1, FirstIndex(types[n], typeMark) - 1)
                        = ResourceIri(n)
                  /\ SubSeq(preds[n], 1, FirstIndex(preds[n], " ") - 1)
                        = ResourceIri(n)
                  /\ LET rest == SubSeq(preds[n],
                                        FirstIndex(preds[n], " ") + 1,
                                        Len(preds[n]))
                         p == SubSeq(rest, 1, FirstIndex(rest, " ") - 1)
                         o == SubSeq(rest, FirstIndex(rest, " ") + 1,
                                     Len(rest) - 1)
                     IN  /\ IsFullIri(p)
                         /\ IsFullIri(o)
                         /\ rest[Len(rest)] = " ."
                  /\ LET class == Between(types[n], typeMark, "> .")
                     IN  /\ class # <<>>
                         /\ \A k \in 1..Len(class) :
                               class[k] \notin PrefixedNames

\* the part of C15 about positional ids and the IRIs of subject, predicate
\* and object
C15_PositionalIds ==
    JsonLdAndNTriplesWritten =>
        LET T == call.triples
            graph == fs["jsonld"].data.graph
            nt == SplitLines(fs["nt"].data)
            types == SelectSeq(nt, IsNTriplesTypeLine)
            preds == SelectSeq(nt, IsNTriplesPredicateLine)
            typeMark == " <http://www.w3.org/1999/02/22-rdf-syntax-ns#type> <"
        IN  /\ Len(graph) = Len(T)
            /\ Len(types) = Len(T)
            /\ Len(preds) = Len(T)
            /\ \A n \in 1..Len(T) :
                  /\ graph[n][<<"@id">>]
                        = <<"http://example.org/resource/", "Event_">>
                          \o Decimal(n)
                  /\ graph[n][<<"rdfs:label">>] = T[n]["subject"]
                  /\ SubSeq(types[n], 1, FirstIndex(types[n], typeMark) - 1)
                        = ResourceIri(n)
                  /\ SubSeq(preds[n], 1, FirstIndex(preds[n], " ") - 1)
                        = ResourceIri(n)
                  /\ LET rest == SubSeq(preds[n],
                                        FirstIndex(preds[n], " ") + 1,
                                        Len(preds[n]))
                         p == SubSeq(rest, 1, FirstIndex(rest, " ") - 1)
                         o == SubSeq(rest, FirstIndex(rest, " ") + 1,
                                     Len(rest) - 1)
                     IN  /\ IsFullIri(p)
                         /\ IsFullIri(o)
                         /\ rest[Len(rest)] = " ."

\* an N-Triples export of two triples with one subject, typed dbo:Event
C15_RepeatedSubject ==
    /\ JsonLdAndNTriplesWritten
    /\ Len(call.triples) = 2
    /\ call.triples[1]["subject"] = call.triples[2]["subject"]
    /\ call.tbox_class = "dbo:Event"
    /\ HasLine(SplitLines(fs["nt"].data),
               ResourceIri(2)
               \o <<" <http://www.w3.org/1999/02/22-rdf-syntax-ns#type> <",
                    "dbo:Event", "> .">>)

IsSlugifyCall(c) == c.op = "slugify"

IsNTriplesExport(c) ==
    c.op = "export" /\ c.format = "nt" /\ c.result.exc = "none"

\* the object name of an N-Triples predicate line '<s> <p> <o> .'
NTriplesObject(l) ==
    LET afterSubject == SubSeq(l, FirstIndex(l, " ") + 1, Len(l))
        afterPredicate == SubSeq(afterSubject,
                                 FirstIndex(afterSubject, " ") + 1,
                                 Len(afterSubject))
    IN  Between(afterPredicate, "<http://example.org/resource/", ">")

C16_AfterExport ==
    /\ Len(history) = 2
    /\ IsNTriplesExport(history[1])
    /\ IsSlugifyCall(history[2])
    /\ \E n \in 1..Len(history[1].triples) :
          history[1].triples[n]["object"] = history[2].label

IsIdentifierCall(c) == c.op \in {"slugify", "canonical_entity"}

\* the label as the claim compares it: trimmed and in canonical form
Canonical(label) == NFC(Strip(label))

\* C17 as stated: two labels that differ after trimming and Unicode
\* canonicalization are never mapped to the same identifier by slugify or
\* by canonical_entity.
C17_DistinctLabelsDistinctIds ==
    \A i, j \in 1..Len(history) :
        (/\ IsIdentifierCall(history[i])
         /\ history[j].op = history[i].op
         /\ Canonical(history[i].label) # Canonical(history[j].label)) =>
            history[i].result.value # history[j].result.value

\* canonical_entity('x y') and canonical_entity(' x/y') both ':x_y'
C17_Collision ==
    /\ Len(history) = 2
    /\ history[1].op = "canonical_entity"
    /\ history[2].op = "canonical_entity"
    /\ history[1].label = <<"x", " ", "y">>
    /\ history[2].label = <<" ", "x", "/", "y">>
    /\ history[1].result.value = <<":", "x", "_", "y">>
    /\ history[2].result.value = <<":", "x", "_", "y">>

\* a writer's call during which open() or the write failed
WriteFailed ==
    /\ call.op = "export"
    /\ call.io # "ok"
    /\ call.theme = "event"

\* C18 as stated: when a writer's file write fails, the caller gets the
\* error and no path, and the target then holds no file or the complete
\* file it held before, never a truncated or partly written one.
C18_FailedWriteKeepsPriorFile ==
    WriteFailed =>
        /\ call.result.exc = "OSError"
        /\ call.result.path = None
        /\ fs[call.format].complete
        /\ \/ ~ fs[call.format].exists
           \/ (call.before[call.format].exists
                  /\ fs[call.format] = call.before[call.format])

\* the part of C18 the code keeps: the error reaches the caller, no path is
\* returned, and the files of the other formats are untouched
C18_FailurePropagates ==
    WriteFailed =>
        /\ call.result.exc = "OSError"
        /\ call.result.path = None
        /\ \A f \in AllFormats \ {call.format} : fs[f] = call.before[f]
        /\ call.io = "open_fails" => fs = call.before

\* a failed write over the complete file of an earlier export
C18_PriorVersionLost ==
    /\ WriteFailed
    /\ call.io = "write_fails"
    /\ call.before[call.format].exists
    /\ call.before[call.format].complete
    /\ ~ fs[call.format].complete

(***************************************************************************)
(* Properties of the normalizers                                           *)
(***************************************************************************)
AppliedTwice(fn) == norm.fn = fn /\ Len(norm.outputs) = 2

\* C19 as stated: clean_text(clean_text(x)) = clean_text(x) for every text
\* x, also with spaces between punctuation marks and repeated punctuation.
C19_CleanTextIdempotent ==
    AppliedTwice("clean_text") => norm.outputs[2] = norm.outputs[1]

\* the part of C19 the code keeps: one pass is enough unless it moved two
\* equal sentence marks next to each other or left a letter directly before
\* a combining mark it composes with
C19_IdempotentUnlessMarksMeet ==
    (/\ AppliedTwice("clean_text")
     /\ \A i \in 1..(Len(norm.outputs[1]) - 1) :
           ~ (norm.outputs[1][i] \in RepeatablePunctuation
                 /\ norm.outputs[1][i + 1] = norm.outputs[1][i])
     /\ NFC(norm.outputs[1]) = norm.outputs[1]) =>
        norm.outputs[2] = norm.outputs[1]

\* '. .' cleaned to '..' and then to '.'
C19_MarksMeet ==
    /\ AppliedTwice("clean_text")
    /\ norm.input = <<".", " ", ".">>
    /\ norm.outputs = << <<".", ".">>, <<".">> >>

\* C20 as stated: normalize_arabic(normalize_arabic(x)) = normalize_arabic(x)
\* for every text x, also when a removed diacritic leaves a base letter next
\* to a combining mark, and normalize_arabic(x) = x for pure-ASCII x.
C20_NormalizeArabicIdempotent ==
    /\ AppliedTwice("normalize_arabic") => norm.outputs[2] = norm.outputs[1]
    /\ (norm.fn = "normalize_arabic" /\ Len(norm.outputs) >= 1
           /\ \A i \in 1..Len(norm.input) : norm.input[i] \in Ascii) =>
          norm.outputs[1] = norm.input

\* the part of C20 the code keeps: the identity on pure-ASCII text, and
\* idempotence unless a pass left a letter directly before a combining mark
\* it composes with
C20_IdentityOnAscii ==
    /\ (norm.fn = "normalize_arabic" /\ Len(norm.outputs) >= 1
           /\ \A i \in 1..Len(norm.input) : norm.input[i] \in Ascii) =>
          norm.outputs[1] = norm.input
    /\ (AppliedTwice("normalize_arabic")
           /\ NFC(norm.outputs[1]) = norm.outputs[1]) =>
          norm.outputs[2] = norm.outputs[1]

\* U+0627 U+06D6 U+0653: the diacritic between them removed, the rest
\* composed and folded by the second pass
C20_MarkMeetsAlef ==
    /\ AppliedTwice("normalize_arabic")
    /\ norm.input = <<"ALEF", "SMALL_HIGH_SAD_LAM_ALEF_MAKSURA",
                      "MADDAH_ABOVE">>
    /\ norm.outputs = << <<"ALEF", "MADDAH_ABOVE">>, <<"ALEF">> >>

\* the code points of a text outside [\u0600-\u06FF], in order
NonArabic(t) == SelectSeq(t, LAMBDA c : c \notin ArabicBlock)

\* the text handed to the k-th application
ArgumentOf(k) == IF k = 1 THEN norm.input ELSE norm.outputs[k - 1]

\* C21 as stated: normalize_arabic leaves the non-Arabic code points of its
\* input as they are and in their order, with and without Arabic-range
\* code points in the text.
C21_NonArabicUnchanged ==
    norm.fn = "normalize_arabic" =>
        \A k \in 1..Len(norm.outputs) :
            NonArabic(norm.outputs[k]) = NonArabic(ArgumentOf(k))

\* the part of C21 the code keeps: the non-Arabic code points of the output
\* are those of the canonically composed (NFC) input, in order, and a text
\* without Arabic-range code points is returned as its NFC form
C21_NonArabicOfComposedInputKept ==
    norm.fn = "normalize_arabic" =>
        \A k \in 1..Len(norm.outputs) :
            /\ NonArabic(norm.outputs[k]) = NonArabic(NFC(ArgumentOf(k)))
            /\ NonArabic(ArgumentOf(k)) = ArgumentOf(k) =>
                  norm.outputs[k] = NFC(ArgumentOf(k))

\* 'e' U+0301 U+0640: the tatweel removed, the letter and its accent composed
C21_AccentComposed ==
    /\ norm.fn = "normalize_arabic"
    /\ norm.input = <<"e", "COMBINING_ACUTE", "TATWEEL">>
    /\ norm.outputs = << <<"E_ACUTE">> >>

\* a text with Arabic and non-Arabic code points that are all kept
C21_MixedText ==
    /\ norm.fn = "normalize_arabic"
    /\ norm.input = <<"x", "ALEF", "e">>
    /\ norm.outputs = << <<"x", "ALEF", "e">> >>

(***************************************************************************)
(* segment_into_events on the texts of SpecText                            *)
(***************************************************************************)
Segmented == norm.fn = "segment_into_events"

Segments == norm.outputs[1]

NoMarkerIn(t) == \A k \in 1..Len(markers) : ~Contains(t, markers[k])

\* C22: the segments returned by segment_into_events, joined in order by
\* line breaks, have the line sequence of the segmented text: no line is
\* lost, duplicated or reordered, blank lines at segment boundaries included
C22_SegmentsReproduceLines ==
    Segmented => SplitLines(JoinLines(Segments)) = SplitLines(norm.input)

\* what does hold: the joined segments have the lines of the text once each
\* segment is trimmed and the blank segments are dropped, so the lines that
\* differ are blank or padded ones at the ends of a segment
C22_NonBlankLinesKept ==
    Segmented =>
        LET kept(t) == SelectSeq(SplitLines(t), LAMBDA l : Strip(l) # <<>>)
            trimmed(ls) == [k \in 1..Len(ls) |-> Strip(ls[k])]
        IN  trimmed(kept(JoinLines(Segments))) = trimmed(kept(norm.input))

\* the text "x", blank line, marker line comes back as "x" and the marker
\* line: the blank line between the two segments is gone
C22_BlankLineLost ==
    /\ Segmented
    /\ norm.input = <<"x", "\n", "\n", "HAH", "REH", "BEH">>
    /\ Segments = << <<"x">>, <<"HAH", "REH", "BEH">> >>

\* C23: for every text that holds none of the marker terms,
\* segment_into_events returns exactly one segment, and that segment is the
\* whole cleaned text it was given
C23_NoMarkerOneSegment ==
    (Segmented /\ NoMarkerIn(norm.input) /\ clean_text(norm.input) = norm.input)
        => Segments = <<norm.input>>

\* C23, as the code has it: a text without markers comes back as one segment,
\* the text trimmed (the text itself when it is cleaned), unless nothing is
\* left after trimming: then there is no segment
C23_NoMarkerOneTrimmedSegment ==
    (Segmented /\ NoMarkerIn(norm.input))
        => /\ Segments = IF Strip(norm.input) = <<>> THEN <<>>
                         ELSE <<Strip(norm.input)>>
           /\ (clean_text(norm.input) = norm.input /\ norm.input # <<>>)
                 => Segments = <<norm.input>>

\* a cleaned text without markers came back as the one segment
C23_Witness ==
    /\ Segmented
    /\ NoMarkerIn(norm.input)
    /\ clean_text(norm.input) = norm.input
    /\ norm.input = <<"x", " ", "e">>
    /\ Segments = <<norm.input>>

\* several lines without a marker are one segment
C23_ManyLines ==
    /\ Segmented
    /\ NoMarkerIn(norm.input)
    /\ Cardinality(LineBreaks(norm.input)) = 2
    /\ Len(Segments) = 1

\* the empty text is cleaned and holds no marker, and has no segment
C23_EmptyText ==
    /\ Segmented
    /\ norm.input = <<>>
    /\ clean_text(norm.input) = norm.input
    /\ Segments = <<>>

\* C25: every returned segment is non-empty after trimming; every segment
\* but possibly the first begins with a line that holds a marker; no line of
\* a segment after its first holds a marker
C25_SegmentsStartAtMarkers ==
    Segmented =>
        \A k \in 1..Len(Segments) :
            LET lines == SplitLines(Segments[k])
            IN  /\ Strip(Segments[k]) # <<>>
                /\ k > 1 => HasMarker(lines[1])
                /\ \A j \in 2..Len(lines) : ~HasMarker(lines[j])

\* three segments: lines before the first marker, then two marker lines
C25_Witness ==
    /\ Segmented
    /\ Len(Segments) = 3
    /\ ~HasMarker(SplitLines(Segments[1])[1])
    /\ HasMarker(SplitLines(Segments[2])[1])
    /\ HasMarker(SplitLines(Segments[3])[1])

\* a segment of several lines that starts at a marker, after a blank first
\* segment was dropped
C25_MarkerSegmentOfManyLines ==
    /\ Segmented
    /\ norm.input = <<"\n", "HAH", "REH", "BEH", "\n", "x">>
    /\ Segments = << <<"HAH", "REH", "BEH", "\n", "x">> >>

(***************************************************************************)
(* generate_triples in SpecPipeline                                        *)
(***************************************************************************)
GeneratedTriples == call.op = "generate_triples"

\* C27: generate_triples segments the text only after clean_text has removed
\* every line break, so the segment list has at most one element, none
\* exactly when the cleaned text is empty, and the external generator is
\* called at most once
C27_AtMostOneSegment ==
    GeneratedTriples =>
        /\ Len(call.result.sent) <= 1
        /\ call.result.exc = "none" =>
              /\ call.result.value.segments = call.result.sent
              /\ Len(call.result.sent) = 0 <=> clean_text(call.text) = <<>>
              /\ \A k \in 1..Len(call.result.sent) :
                    /\ LineBreaks(call.result.sent[k]) = {}
                    /\ call.result.sent[k] = clean_text(call.text)

\* a text of three lines, two of them marker lines, was sent to the
\* generator as one segment
C27_Witness ==
    /\ GeneratedTriples
    /\ call.result.exc = "none"
    /\ Cardinality(LineBreaks(call.text)) = 2
    /\ Len(segment_into_events(call.text)) = 3
    /\ Len(call.result.sent) = 1

\* the empty text has no segment and the generator is not called
C27_NoSegment ==
    /\ GeneratedTriples
    /\ call.result.exc = "none"
    /\ call.text = <<>>
    /\ call.result.sent = <<>>
    /\ call.result.value.triples = <<>>

\* C28: for theme "other" with a class supplied by the caller, the map of
\* allowed predicates is empty, so a generate_triples call that returns has an
\* empty triple list whatever the generator proposed
C28_OtherThemeKeepsNoTriple ==
    /\ get_allowed_predicates("other") = EmptyMap
    /\ load_allowed_predicates("other") = EmptyMap
    /\ (GeneratedTriples /\ call.theme = "other" /\ call.user_tbox # None
            /\ call.result.exc = "none")
          => call.result.value.triples = <<>>

\* the generator proposed triples, one with an event predicate, for theme
\* "other" and class ex:Monument, and none was returned
C28_Witness ==
    /\ GeneratedTriples
    /\ call.theme = "other"
    /\ call.user_tbox = <<"ex:Monument">>
    /\ call.result.exc = "none"
    /\ Len(call.result.all_triples) = MaxCandidates
    /\ \E k \in 1..Len(call.result.all_triples) :
          PredicateAllowed(call.result.all_triples[k], EVENT_PREDICATES)
    /\ call.result.value.triples = <<>>
    /\ call.result.value.tbox = "ex:Monument"

(***************************************************************************)
(* Filtered triples through build and merge                                *)
(***************************************************************************)
\* the edge's predicate is a key of the map of the edge's theme
AllowedEdge(attrs) ==
    /\ attrs.theme \in {"event", "cultural"}
    /\ attrs.predicate \in DOMAIN get_allowed_predicates(attrs.theme)

Conforms(G) == \A e \in DOMAIN G.edge : AllowedEdge(G.edge[e])

\* the list is what the filter of generate_triples leaves for the theme
IsFiltered(triples, theme) ==
    FilterAllowed(triples, get_allowed_predicates(theme)) = triples

\* C29: for theme event or cultural, every edge of a graph built from a
\* filtered candidate list has a predicate that is a key of the theme's map
\* of allowed predicates, and so has every edge of a merge of such graphs
C29_AllowedPredicatesKept ==
    /\ (last.op = "build" /\ IsFiltered(last.triples, last.prov.theme))
          => \A e \in DOMAIN graphs[last.slot].edge :
                /\ graphs[last.slot].edge[e].theme = last.prov.theme
                /\ AllowedEdge(graphs[last.slot].edge[e])
    /\ (last.op = "merge"
            /\ \A k \in 1..Len(last.inputs) : Conforms(last.inputs[k]))
          => Conforms(graphs[last.slot])

\* an event graph and a cultural graph that both hold the edge from a to d
\* were merged, the cultural one last
C29_Witness ==
    /\ last.op = "merge"
    /\ Len(last.inputs) = 2
    /\ \A k \in 1..2 : Conforms(last.inputs[k])
    /\ <<LabelA, LabelD>> \in DOMAIN last.inputs[1].edge
    /\ <<LabelA, LabelD>> \in DOMAIN last.inputs[2].edge
    /\ last.inputs[1].edge[<<LabelA, LabelD>>].theme = "event"
    /\ last.inputs[2].edge[<<LabelA, LabelD>>].theme = "cultural"
    /\ graphs[last.slot].edge[<<LabelA, LabelD>>].predicate = <<"originatedIn">>

\* a filtered list of two triples was built into a graph of two edges
C29_BuiltFromFiltered ==
    /\ last.op = "build"
    /\ Len(last.triples) = 2
    /\ IsFiltered(last.triples, last.prov.theme)
    /\ Cardinality(DOMAIN graphs[last.slot].edge) = 2

(***************************************************************************)
(* merge_graphs nested and flat                                            *)
(***************************************************************************)
Associative(A, B, C) ==
    LET flat == merge_graphs(<<A, B, C>>)
    IN  /\ merge_graphs(<<merge_graphs(<<A, B>>), C>>) = flat
        /\ merge_graphs(<<A, merge_graphs(<<B, C>>)>>) = flat

\* the graphs at hand: those of the pool, the inputs of the last merge and
\* the graph the last add_triple started from
GraphsAtHand ==
    {graphs[j] : j \in Slots}
        \cup (IF last.op = "merge"
              THEN {last.inputs[k] : k \in 1..Len(last.inputs)}
              ELSE IF last.op = "add_triple" THEN {last.before}
              ELSE {})

\* the step is a merge_graphs call
MergeStep == steps' = steps + 1 /\ last'.op = "merge"

\* C30: merge_graphs is associative on membership and attribute values,
\* merge([merge([A, B]), C]) = merge([A, merge([B, C])]) = merge([A, B, C]),
\* and a merge leaves its input graphs as they were
C30_MergeAssociativeInputsKept ==
    /\ [](\A A \in GraphsAtHand, B \in GraphsAtHand, C \in GraphsAtHand :
             Associative(A, B, C))
    /\ [][MergeStep =>
             /\ \A k \in 1..Len(last'.inputs) :
                   \E j \in Slots : graphs[j] = last'.inputs[k]
             /\ graphs'[last'.slot] = merge_graphs(last'.inputs)
             /\ \A j \in Slots \ {last'.slot} : graphs'[j] = graphs[j]]_vars

\* three graphs were merged, the first two differ and hold a common edge
\* with different attributes, and the nested merges give the graph returned
C30_Witness ==
    /\ last.op = "merge"
    /\ Len(last.inputs) = 3
    /\ \E e \in DOMAIN last.inputs[1].edge \cap DOMAIN last.inputs[2].edge :
          last.inputs[1].edge[e] # last.inputs[2].edge[e]
    /\ graphs[last.slot] # last.inputs[1]
    /\ graphs[last.slot] # last.inputs[2]
    /\ Associative(last.inputs[1], last.inputs[2], last.inputs[3])
    /\ \E j \in Slots \ {last.slot} : graphs[j] = last.inputs[1]

(***************************************************************************)
(* Labels and their identifiers in one Turtle text                         *)
(***************************************************************************)
\* a Turtle line '<id> rdfs:label "<text>"@ar .', of a subject or an object
IsLabelLine(l) == FirstIndex(l, " rdfs:label \"") > 0

LabelLines(ttl) == SelectSeq(SplitLines(ttl), IsLabelLine)

\* C26: in the Turtle text of one export a label is named by one identifier
\* in every statement that holds it, as subject of one triple or as object
\* of another
C26_OneIdentifierPerLabel ==
    TurtleWritten =>
        LET L == LabelLines(fs["ttl"].data)
        IN  \A m, n \in 1..Len(L) :
               LabelOf(L[m]) = LabelOf(L[n]) => IdOf(L[m]) = IdOf(L[n])

\* what does hold: the subjects among themselves, and the objects among
\* themselves, have one identifier per label
C26_OneIdentifierPerRole ==
    TurtleWritten =>
        LET L == LabelLines(fs["ttl"].data)
        IN  \A m, n \in 1..Len(L) :
               (LabelOf(L[m]) = LabelOf(L[n])
                    /\ IsEventLabelLine(L[m]) = IsEventLabelLine(L[n]))
                  => IdOf(L[m]) = IdOf(L[n])

\* the label "x y" is the subject of the first triple and the object of the
\* second: the text names it :Event_1 and :x_y
C26_SubjectAndObject ==
    /\ TurtleWritten
    /\ Len(call.triples) = 2
    /\ call.triples[1]["subject"] = call.triples[2]["object"]
    /\ HasLine(SplitLines(fs["ttl"].data),
               <<":", "Event_", "1", " rdfs:label \"", "x", " ", "y",
                 "\"@ar .">>)
    /\ HasLine(SplitLines(fs["ttl"].data),
               <<":", "x", "_", "y", " rdfs:label \"", "x", " ", "y",
                 "\"@ar .">>)

(***************************************************************************)
(* Concurrent invocations against the calls run alone                      *)
(***************************************************************************)
\* what invocation k computes when it runs alone
AloneGraph(k) ==
    build_graph_from_triples(procs[k].triples, procs[k].theme,
                             procs[k].tbox_class, "report.pdf")

AloneTurtle(k) ==
    TurtleOutput(ontology, procs[k].triples, procs[k].tbox_class,
                 procs[k].theme)

\* the step is taken by invocation k
StepOf(k) == procs'[k] # procs[k]

\* C24: two invocations that write to different paths share no state: in
\* every interleaving the graph, the identifiers assigned and the file of
\* each are those of the invocation run alone, and a step of one invocation
\* neither reads nor changes the identifier counter, the other locals or the
\* file of the other
C24_InvocationsIsolated ==
    /\ [](\A k \in Invocations :
             LET p == procs[k]
             IN  /\ p.pc \in {"export", "done", "raised"} => p.G = AloneGraph(k)
                 /\ p.pc \in {"export", "done"} =>
                       /\ p.event_map = EventMapAfter(p.triples, p.i - 1)
                       /\ p.event_counter = Cardinality(DOMAIN p.event_map) + 1
                 /\ p.pc = "done" =>
                       /\ AloneTurtle(k).exc = "none"
                       /\ outs[k].exists /\ outs[k].complete
                       /\ outs[k].data = AloneTurtle(k).data
                 /\ p.pc = "raised" =>
                       /\ AloneTurtle(k).exc # "none"
                       /\ ~outs[k].exists)
    /\ [][\A k \in Invocations :
             StepOf(k) =>
                /\ \A j \in Invocations \ {k} :
                      procs'[j] = procs[j] /\ outs'[j] = outs[j]
                /\ procs'[k].pc = "export" /\ procs[k].pc = "export" =>
                      procs'[k].event_counter \in
                          {procs[k].event_counter,
                           procs[k].event_counter + 1}]_vars

\* both invocations finished with different triples, each having given ids
\* to two subjects, and each file is the one of the invocation run alone
C24_Witness ==
    /\ \A k \in Invocations :
          /\ procs[k].pc = "done"
          /\ procs[k].event_counter = 3
          /\ outs[k].data = AloneTurtle(k).data
    /\ procs[1].triples # procs[2].triples

\* both invocations are inside the export loop, each with an id assigned
C24_BothInLoop ==
    \A k \in Invocations :
        /\ procs[k].pc = "export"
        /\ procs[k].i = 2
        /\ procs[k].event_counter = 2
        /\ Len(procs[k].triples) = 2

====
